---- MODULE Spec2Model ----
(***************************************************************************)
(* A model of the core of the 410OS.rs kernel: the intrusive queue         *)
(* (variable_queue.rs), the owner-tracking lock (sync/owned_lock.rs), the  *)
(* mutex (sync/mutex.rs), the condition variable (sync/cond.rs), the       *)
(* reader/writer lock (sync/rwlock.rs), the run queue they block on        *)
(* (thread/scheduler.rs), the context switch (thread/context_switch.rs),   *)
(* the interrupt guard (sync/disable_interrupts.rs), the frame allocator   *)
(* (vm/frame_alloc.rs), the page entries and page tables                   *)
(* (virtual_memory.rs, vm/) and the thread handles (thread.rs).            *)
(*                                                                         *)
(* Pointers are small integers and NULL is the null pointer.  One          *)
(* specification per component: SpecQ, SpecQTail and SpecQCall for the     *)
(* queue, SpecOL, SpecMutex, SpecCond, SpecRW, SpecSched, SpecInt,         *)
(* SpecFrames, SpecFlags for the flags of a page entry, SpecVM, SpecRange  *)
(* and SpecSetFlags for the page directory, SpecRef for the reference      *)
(* counts, and SpecPC for a producer and a consumer on a mutex and a cond; *)
(* a component's actions leave the other components' variables unchanged.  *)
(***************************************************************************)
EXTENDS Integers, Sequences, FiniteSets, TLC

NULL == 0

(***************************************************************************)
(* variable_queue.rs: Head<Elem> and the Link<Elem> of every element for   *)
(* one link slot, as one record                                            *)
(*   [queueFront, queueBack, next, prev, inQueue].                         *)
(***************************************************************************)

\* Number of elements that may be linked through the slot.
NumElems == 3

Elems == 1..NumElems

\* Head::new() with every Link::new()
NewQueue(S) ==
    [queueFront |-> NULL, queueBack |-> NULL,
     next |-> [e \in S |-> NULL], prev |-> [e \in S |-> NULL],
     inQueue |-> [e \in S |-> FALSE]]

insert_front(q, elem) ==
    IF ~q.inQueue[elem]
    THEN LET p1 == [q.prev EXCEPT ![elem] = NULL]
             n1 == [q.next EXCEPT ![elem] = q.queueFront]
         IN  IF q.queueFront = NULL
             THEN [q EXCEPT !.prev = p1, !.next = n1,
                            !.queueFront = elem, !.queueBack = elem,
                            !.inQueue[elem] = TRUE]
             ELSE [q EXCEPT !.prev = [p1 EXCEPT ![q.queueFront] = elem],
                            !.next = n1,
                            !.queueFront = elem,
                            !.inQueue[elem] = TRUE]
    ELSE q

insert_tail(q, elem) ==
    IF ~q.inQueue[elem]
    THEN LET n1 == [q.next EXCEPT ![elem] = NULL]
             \* line 134 stores queueFront, not queueBack, into prev
             p1 == [q.prev EXCEPT ![elem] = q.queueFront]
         IN  IF q.queueBack = NULL
             THEN [q EXCEPT !.next = n1, !.prev = p1,
                            !.queueFront = elem, !.queueBack = elem,
                            !.inQueue[elem] = TRUE]
             ELSE [q EXCEPT !.next = [n1 EXCEPT ![q.queueBack] = elem],
                            !.prev = p1,
                            !.queueBack = elem,
                            !.inQueue[elem] = TRUE]
    ELSE q

\* insert_after that only tests the flag of inQ.
insert_after_NoFlagTest(q, inQ, toinsert) ==
    IF q.inQueue[inQ]
    THEN LET p1 == [q.prev EXCEPT ![toinsert] = inQ]
             n1 == [q.next EXCEPT ![toinsert] = q.next[inQ]]
             nx == n1[inQ]
         IN  IF nx = NULL
             THEN [q EXCEPT !.prev = p1,
                            !.next = [n1 EXCEPT ![inQ] = toinsert],
                            !.queueBack = toinsert,
                            !.inQueue[toinsert] = TRUE]
             ELSE [q EXCEPT !.prev = [p1 EXCEPT ![nx] = toinsert],
                            !.next = [n1 EXCEPT ![inQ] = toinsert],
                            !.inQueue[toinsert] = TRUE]
    ELSE q

insert_after(q, inQ, toinsert) ==
    IF q.inQueue[inQ] /\ ~q.inQueue[toinsert]
    THEN LET p1 == [q.prev EXCEPT ![toinsert] = inQ]
             n1 == [q.next EXCEPT ![toinsert] = q.next[inQ]]
             nx == n1[inQ]
         IN  IF nx = NULL
             THEN [q EXCEPT !.prev = p1,
                            !.next = [n1 EXCEPT ![inQ] = toinsert],
                            !.queueBack = toinsert,
                            !.inQueue[toinsert] = TRUE]
             ELSE [q EXCEPT !.prev = [p1 EXCEPT ![nx] = toinsert],
                            !.next = [n1 EXCEPT ![inQ] = toinsert],
                            !.inQueue[toinsert] = TRUE]
    ELSE q

insert_before(q, inQ, toinsert) ==
    IF q.inQueue[inQ] /\ ~q.inQueue[toinsert]
    THEN LET p1 == [q.prev EXCEPT ![toinsert] = q.prev[inQ]]
             n1 == [q.next EXCEPT ![toinsert] = inQ]
             pv == p1[inQ]
         IN  IF pv = NULL
             THEN [q EXCEPT !.next = n1,
                            !.prev = [p1 EXCEPT ![inQ] = toinsert],
                            !.queueFront = toinsert,
                            !.inQueue[toinsert] = TRUE]
             ELSE [q EXCEPT !.next = [n1 EXCEPT ![pv] = toinsert],
                            !.prev = [p1 EXCEPT ![inQ] = toinsert],
                            !.inQueue[toinsert] = TRUE]
    ELSE q

remove(q, elem) ==
    IF q.inQueue[elem]
    THEN LET \* redirect pointer from prev
             q1 == IF q.prev[elem] = NULL
                   THEN [q EXCEPT !.inQueue[elem] = FALSE,
                                  !.queueFront = q.next[elem]]
                   ELSE [q EXCEPT !.inQueue[elem] = FALSE,
                                  !.next[q.prev[elem]] = q.next[elem]]
             \* redirect pointer from next
         IN  IF q1.next[elem] = NULL
             THEN [q1 EXCEPT !.queueBack = q1.prev[elem]]
             ELSE [q1 EXCEPT !.prev[q1.next[elem]] = q1.prev[elem]]
    ELSE q

\* Iter::next applied k times from node n: the elements visited, in order.
RECURSIVE IterFrom(_, _, _)
IterFrom(q, n, k) ==
    IF n = NULL \/ k = 0 THEN <<>>
    ELSE <<n>> \o IterFrom(q, q.next[n], k - 1)

\* Head::iter collected; a chain longer than the slot's elements is cut.
iter(q) == IterFrom(q, q.queueFront, Cardinality(DOMAIN q.inQueue) + 1)

SeqRange(s) == {s[i] : i \in 1..Len(s)}

(***************************************************************************)
(* Threads.  The kernel is a uniprocessor with timer preemption and        *)
(* nothing in the sources masks the timer (DisabledInterruptsGuard only    *)
(* counts), so the threads' memory operations interleave freely.  Every    *)
(* thread runs a stack of frames [fn, pc, obj, x]: the function, the       *)
(* position in it, the object it was called on and one local.  The         *)
(* context switch itself is external assembly; yieldThread is modelled by  *)
(* what it does to its caller, which is suspended and later resumes with   *)
(* the locks' state as the other threads left it.                          *)
(***************************************************************************)

\* Number of kernel threads.
NumThreads == 2

Threads == 1..NumThreads

LOCKED == TRUE
UNLOCKED == FALSE

\* Objects are named by tuples of strings.  The conds: one of its own and
\* the two of the RWLock.  Each has a mutex around its queue; the RWLock has
\* one around its status.
canRead == <<"canRead">>
canWrite == <<"canWrite">>

Conds == {<<"C">>, canRead, canWrite}

queueMutex(c) == c \o <<"queue">>

statusMutex == <<"status">>

\* static allocator: FrameAllocator(Mutex<FrameAllocatorInner>)
allocator == <<"allocator">>

Mutexes == {<<"M">>, statusMutex, allocator} \cup {queueMutex(c) : c \in Conds}

waitList(m) == m \o <<"waitList">>
mutexLock(m) == m \o <<"mutexLock">>

schedLock == <<"sched", "lock">>

\* Every OwnedLock of the model: a free-standing one, the one of the
\* schedule, and the waitList and mutexLock of each Mutex.
Locks == {<<"L", "lock">>, schedLock} \cup {waitList(m) : m \in Mutexes}
                                       \cup {mutexLock(m) : m \in Mutexes}

TRY_TO_DESCHEDULE == FALSE
DO_NOT_DESCHEDULE == TRUE


VARIABLES
    queue,          \* the Head and Links of the queue under test (SpecQ)
    order,          \* the elements insert_tail linked and remove has not
                    \* unlinked since, oldest first (SpecQTail)
    qcall,          \* the last call on the queue: its name, its inQ and
                    \* element arguments, the element's inQueue flag when
                    \* the call was made, and the number of calls so far
                    \* (SpecQCall)
    stack,          \* per thread: the frames of the calls in progress
    ret,            \* per thread: the value the last call returned
    op,             \* per thread: the operation its caller asked for last
    status,         \* OwnedLock.status
    owner,          \* OwnedLock.owner
    guardCreated,   \* OwnedLock.guardCreated
    guards,         \* per lock: the threads that hold an OwnedLockGuard
    handed,         \* per lock: the thread it was transferred to, until the
                    \* next guard creation, drop or transfer
    wq,             \* per mutex: the waitlist (Head<WaitListNode> and the
                    \* link of each thread's node)
    hasLock,        \* per mutex and thread: WaitListNode.hasLock
    mguards,        \* per mutex: the threads that hold a MutexGuard
    regOrder,       \* per mutex: the threads whose node was tail-inserted
                    \* and that have not returned from lock() since
    cq,             \* per cond: the queue (Head<QueueNode> and the link of
                    \* each thread's node)
    doNotDeschedule,\* per thread: QueueNode.doNotDeschedule
    sigFor,         \* per thread: the waiters that were queued when the
                    \* signalCond or broadcastCond it is in began
    schedNext,      \* ScheduleInner.next
    runq,           \* ScheduleInner.queue and the scheduleLink of each thread
    scheduled,      \* per thread: ThreadBlock.scheduled
    readerCount,    \* RWLockStatus; each thread adds at most one to a
                    \* counter and takes off only what it added, so the u32
                    \* counters never wrap
    writerWaitlistSize,
    mode,
    rguards,        \* the threads with a live ReadGuard
    wguards,        \* the threads with a live WriteGuard
    waiting,        \* the writers between joining the writer waitlist and
                    \* the return of lockWrite
    currentThread,  \* _currentThread
    pre,            \* the call the current thread made last on the
                    \* scheduler, and the schedule, the flags and the
                    \* current thread it was made on (SpecSched)
    noThreadRefCount,
                    \* static mut noThreadRefCount
    disabledInterruptsRefCount,
                    \* per thread: ThreadBlock.disabledInterruptsRefCount;
                    \* like noThreadRefCount it counts guards that exist,
                    \* so the u32 never wraps
    interruptsEnabled,
                    \* the interrupt flag of the processor
    bytesFree,      \* FrameAllocatorInner.bytesFree
    fpre,           \* the call made last on the frame allocator, and
                    \* bytesFree when it was made (SpecFrames)
    regionStart,    \* FrameAllocatorInner.regionStart
    regionEnd,      \* FrameAllocatorInner.regionEnd
    currFrame,      \* FrameAllocatorInner.currFrame
    frameFree,      \* the frames whose entry in the kernel directory has
                    \* the FREE bit
    reserved,       \* the reservations made and neither fulfilled nor
                    \* given back
    tcbRefCount,    \* per thread: ThreadBlock.refCount, an AtomicU32; the
                    \* integer n stands for the value n mod 2^32
    liveHandles,    \* per thread: the ThreadHandles to its ThreadBlock
                    \* that exist (SpecRef)
    items,          \* the integers pushed and not yet popped (SpecPC)
    popped,         \* the integers popped, in order (SpecPC)
    dir,            \* the page directory: the entry word of every slot
    tables,         \* the page tables on the heap, by address: the entry
                    \* word of every slot
    vmcall,         \* the last call on the directory, with its arguments
    vmret,          \* and what it returned
    pte,            \* a page entry word (SpecFlags)
    pteOp,          \* the last operation on pte: <<kind, flag>> (SpecFlags)
    swept,          \* what the getNextThread calls returned, in order,
                    \* since the last call of another function (SpecSched)
    ahead           \* per reader: the writers that were waiting when its
                    \* lockRead began and have not returned since

qvars == <<queue, order, qcall>>

\* the state of the scheduler's clients, the interrupt guard and the frame
\* allocator
kvars == <<currentThread, pre>>
ivars == <<noThreadRefCount, disabledInterruptsRefCount, interruptsEnabled>>
fvars == <<bytesFree, fpre>>
pvars == <<items, popped>>
gvars == <<pte, pteOp>>
vmvars == <<dir, tables, vmcall, vmret>>
avars == <<regionStart, regionEnd, currFrame, frameFree, reserved>>
rvars == <<tcbRefCount, liveHandles>>
wvars == <<gvars, vmvars, avars, rvars>>
nvars == <<kvars, swept, ivars, fvars, pvars, wvars>>
tvars == <<stack, ret, op>>
olvars == <<status, owner, guardCreated, guards, handed>>

mvars == <<wq, hasLock, mguards, regOrder>>

cvars == <<cq, doNotDeschedule, sigFor>>
svars == <<schedNext, runq, scheduled>>
rwvars == <<readerCount, writerWaitlistSize, mode, rguards, wguards, waiting, ahead>>

\* the state outside the OwnedLocks and the mutexes
xvars == <<cvars, svars, rwvars>>

vars == <<queue, order, qcall, nvars, stack, ret, op, status, owner, guardCreated, guards, handed,
          wq, hasLock, mguards, regOrder, cq, doNotDeschedule, sigFor,
          schedNext, runq, scheduled, readerCount, writerWaitlistSize, mode,
          rguards, wguards, waiting, ahead>>

\* obj is the name of an object or NoObj, x is a thread or NULL
Frame(f, p, o, x) == [fn |-> f, pc |-> p, obj |-> o, x |-> x]
NoObj == <<>>

Top(t) == Head(stack[t])
Idle(t) == stack[t] = <<>>
InFn(t, f) == stack[t] # <<>> /\ Top(t).fn = f
At(t, f, p) == InFn(t, f) /\ Top(t).pc = p

NoRet == [ok |-> FALSE, owner |-> NULL]
Ok == [ok |-> TRUE, owner |-> NULL]
Err(o) == [ok |-> FALSE, owner |-> o]
Some(v) == [ok |-> TRUE, owner |-> v]

\* Move within the running function, call a function, return from one.
Goto(t, p) ==
    /\ stack' = [stack EXCEPT ![t] = <<[Head(@) EXCEPT !.pc = p]>> \o Tail(@)]
    /\ ret' = ret
GotoX(t, p, x) ==
    /\ stack' = [stack EXCEPT
                    ![t] = <<[Head(@) EXCEPT !.pc = p, !.x = x]>> \o Tail(@)]
    /\ ret' = ret
Call(t, p, fr) ==
    /\ stack' = [stack EXCEPT
                    ![t] = <<fr, [Head(@) EXCEPT !.pc = p]>> \o Tail(@)]
    /\ ret' = ret
CallX(t, p, x, fr) ==
    /\ stack' = [stack EXCEPT
                    ![t] = <<fr, [Head(@) EXCEPT !.pc = p, !.x = x]>> \o Tail(@)]
    /\ ret' = ret
Return(t, v) ==
    /\ stack' = [stack EXCEPT ![t] = Tail(@)]
    /\ ret' = [ret EXCEPT ![t] = v]

TInit ==
    /\ stack = [t \in Threads |-> <<>>]
    /\ ret = [t \in Threads |-> NoRet]
    /\ op = [t \in Threads |-> <<"none">>]

\* OwnedLock::new for every lock
OLInit ==
    /\ status = [l \in Locks |-> UNLOCKED]
    /\ owner = [l \in Locks |-> NULL]
    /\ guardCreated = [l \in Locks |-> FALSE]
    /\ guards = [l \in Locks |-> {}]
    /\ handed = [l \in Locks |-> NULL]

\* Mutex::new for every mutex
MInit ==
    /\ wq = [m \in Mutexes |-> NewQueue(Threads)]
    /\ hasLock = [m \in Mutexes |-> [t \in Threads |-> FALSE]]
    /\ mguards = [m \in Mutexes |-> {}]
    /\ regOrder = [m \in Mutexes |-> <<>>]

\* Cond::new for every cond
CInit ==
    /\ cq = [c \in Conds |-> NewQueue(Threads)]
    /\ doNotDeschedule = [t \in Threads |-> TRY_TO_DESCHEDULE]
    /\ sigFor = [t \in Threads |-> {}]

\* Schedule::new, and ThreadBlock::new for the scheduled flags
SInit ==
    /\ schedNext = NULL
    /\ runq = NewQueue(Threads)
    /\ scheduled = [t \in Threads |-> FALSE]

\* RWLock::new
RWInit ==
    /\ readerCount = 0
    /\ writerWaitlistSize = 0
    /\ mode = "Read"
    /\ rguards = {}
    /\ wguards = {}
    /\ waiting = {}
    /\ ahead = [t \in Threads |-> {}]

(***************************************************************************)
(* byte_utils.rs on words below 2^31, and the flags of a page entry        *)
(* (virtual_memory.rs, vm/page_entry.rs).                                  *)
(***************************************************************************)
RECURSIVE Pow2(_)
Pow2(n) == IF n = 0 THEN 1 ELSE 2 * Pow2(n - 1)

\* a | b and a & b, bit by bit
RECURSIVE BitOr(_, _)
BitOr(a, b) ==
    IF a = 0 THEN b
    ELSE IF b = 0 THEN a
    ELSE (IF a % 2 = 1 \/ b % 2 = 1 THEN 1 ELSE 0) + 2 * BitOr(a \div 2, b \div 2)

RECURSIVE BitAnd(_, _)
BitAnd(a, b) ==
    IF a = 0 \/ b = 0 THEN 0
    ELSE (IF a % 2 = 1 /\ b % 2 = 1 THEN 1 ELSE 0) + 2 * BitAnd(a \div 2, b \div 2)

\* a & !b
BitClear(a, b) == a - BitAnd(a, b)

\* word & (one() << pos) != 0
GET_BIT(word, pos) == BitAnd(word, Pow2(pos)) # 0

\* word & CONST_BIT_RANGE(start, end); the bits from 31 up are zero
FILTER_BIT_RANGE(word, start, end) ==
    (IF end >= 31 THEN word ELSE word % Pow2(end)) - (word % Pow2(start))

\* TRIM_BITS(word >> start, end - start)
GET_BIT_RANGE(word, start, end) ==
    (IF end >= 31 THEN word ELSE word % Pow2(end)) \div Pow2(start)

PAGE_PRESENT_BIT == 0
PAGE_WRITABLE_BIT == 0
PAGE_USER_ACCESS_BIT == 0
PAGE_GLOBAL_BIT == 8
PAGE_COPY_ON_WRITE_BIT == 9
PAGE_FREE_BIT == 10

PAGE_PRESENT == Pow2(PAGE_PRESENT_BIT)
PAGE_WRITABLE == Pow2(PAGE_WRITABLE_BIT)
PAGE_USER_ACCESS == Pow2(PAGE_USER_ACCESS_BIT)
PAGE_GLOBAL == Pow2(PAGE_GLOBAL_BIT)
PAGE_COPY_ON_WRITE == Pow2(PAGE_COPY_ON_WRITE_BIT)
PAGE_FREE == Pow2(PAGE_FREE_BIT)

page_address(e) == FILTER_BIT_RANGE(e, 12, 32)
page_flags(e) == FILTER_BIT_RANGE(e, 0, 12)
page_is_writable(e) == GET_BIT(e, PAGE_WRITABLE_BIT)
page_is_copy_on_write(e) == GET_BIT(e, PAGE_COPY_ON_WRITE_BIT)
page_is_free(e) == GET_BIT(e, PAGE_FREE_BIT)
page_is_present(e) == GET_BIT(e, PAGE_PRESENT_BIT)
no_page == 0

\* PageEntry::new
PageEntry_new(addr, flags) == BitOr(page_address(addr), flags)

(***************************************************************************)
(* The two-level page table: virtual_memory.rs, vm/vm_internal.rs,         *)
(* vm/paging.rs, vm/mapped_memory.rs, vm/memory_alloc.rs, vm/manager.rs    *)
(* and vm/validate_memory.rs.  A directory and its tables are a record     *)
(* vm == [dir, tables]; a function that changes them is an operator from   *)
(* vm to [vm, ok, val], where ok tells Some/Ok from None/Err and val is    *)
(* the address returned.  Pointers are the addresses they hold, and        *)
(* as_ref() of the null pointer is None.  The functions that are generic   *)
(* in the AddressMapping are modelled for DirectMapping, whose functions   *)
(* touch nothing but their argument; with AllocMapping they call the frame *)
(* allocator.  The directory is the one cr3 points to; the TLB and the     *)
(* contents of the pages are left out.                                     *)
(***************************************************************************)
PAGE_SIZE == 4096

\* size_of::<PageEntry>(), a u32
PageEntrySize == 4

NUM_PAGE_ENTRIES == PAGE_SIZE \div PageEntrySize
TABLE_SIZE == NUM_PAGE_ENTRIES * PAGE_SIZE

PAGE_ALIGN(address) == FILTER_BIT_RANGE(address, 12, 32)
TABLE_ALIGN(address) == FILTER_BIT_RANGE(address, 22, 32)

\* LogicalAddress::new
LogicalAddress_new(tableIndex, pageIndex, offset) ==
    BitOr(BitOr(tableIndex * Pow2(22), pageIndex * Pow2(12)), offset)

get_page_table(addr) == GET_BIT_RANGE(addr, 22, 32)
get_page(addr) == GET_BIT_RANGE(addr, 12, 22)
get_page_offset(addr) == GET_BIT_RANGE(addr, 0, 12)

isPageAligned(addr) == addr % PAGE_SIZE = 0

\* Slots of the directory and of every table that the calls reach.
NumTables == 2
NumPages == 2

TIdx == 0..(NumTables - 1)
\* the first slots of a table, and its last slot, next to the first slot of
\* the table after it
PIdx == (0..(NumPages - 1)) \cup {NUM_PAGE_ENTRIES - 1}

\* Where Box::try_new puts page tables: page-aligned, above the pages.
TableAddrs == {(NumTables + i) * TABLE_SIZE : i \in 1..NumTables}

\* PageDirectory::new zeroes the directory; PageTable::default()
NewDirectory == [i \in TIdx |-> no_page]
NewTable == [j \in PIdx |-> no_page]

None == [ok |-> FALSE, val |-> 0]
SomeVal(v) == [ok |-> TRUE, val |-> v]
VmRes(vm, r) == [vm |-> vm, ok |-> r.ok, val |-> r.val]

getPageTableEntry(vm, addr) == vm.dir[get_page_table(addr)]

\* tryGetPageTable, tryGetPageTableMut
tryGetPageTable(vm, addr) ==
    LET table == page_address(getPageTableEntry(vm, addr))
    IN  IF table = 0 THEN None ELSE SomeVal(table)

\* tryGetPageEntry, tryGetPageEntryMut: val is the entry word
tryGetPageEntry(vm, addr) ==
    LET table == tryGetPageTable(vm, addr)
    IN  IF ~table.ok THEN None
        ELSE SomeVal(vm.tables[table.val][get_page(addr)])

\* tryGetPage, tryGetPageMut
tryGetPage(vm, addr) ==
    LET entry == tryGetPageEntry(vm, addr)
    IN  IF ~entry.ok \/ page_address(entry.val) = 0 THEN None
        ELSE SomeVal(page_address(entry.val))

\* *entry = e for the page entry of addr, whose table exists
SetPageEntry(vm, addr, e) ==
    [vm EXCEPT !.tables[tryGetPageTable(vm, addr).val][get_page(addr)] = e]

\* PageEntry::upgradeFlags
upgradeFlags(e, flags) ==
    IF ~GET_BIT(e, PAGE_WRITABLE_BIT) /\ GET_BIT(flags, PAGE_WRITABLE_BIT)
    THEN BitOr(e, PAGE_WRITABLE)
    ELSE e

insertPageTable(vm, table, index, flags) ==
    [vm EXCEPT !.dir[index] = PageEntry_new(table, BitOr(flags, PAGE_PRESENT)),
               !.tables[table] = NewTable]

\* Box::try_new(PageTable::default()): a table nothing points to, or None
Box_try_new(vm, heapOk) ==
    LET free == {a \in TableAddrs : \A i \in TIdx : page_address(vm.dir[i]) # a}
    IN  IF heapOk /\ free # {}
        THEN SomeVal(CHOOSE a \in free : \A b \in free : a <= b)
        ELSE None

\* getPageTable: val is the address of the table
getPageTable(vm, addr, flags, heapOk) ==
    LET entry == getPageTableEntry(vm, addr)
        index == get_page_table(addr)
    IN  IF ~page_is_present(entry)
        THEN LET table == Box_try_new(vm, heapOk)
             IN  IF ~table.ok THEN VmRes(vm, None)
                 ELSE VmRes(insertPageTable(vm, table.val, index, flags),
                            SomeVal(table.val))
        ELSE VmRes([vm EXCEPT !.dir[index] = upgradeFlags(entry, flags)],
                   SomeVal(page_address(entry)))

\* insertPage
insertPage(vm, page, addr, flags, heapOk) ==
    LET table == getPageTable(vm, addr, flags, heapOk)
    IN  IF ~table.ok THEN VmRes(vm, None)
        ELSE VmRes(SetPageEntry(table.vm, addr,
                                PageEntry_new(page, BitOr(flags, PAGE_PRESENT))),
                   SomeVal(0))

\* DirectMapping::allocAddressMapping
allocAddressMapping(addr) == SomeVal(addr)

\* mapPage::<DirectMapping>
mapPage(vm, addr, flags, heapOk) ==
    LET pageAddr == PAGE_ALIGN(addr)
        frame == allocAddressMapping(pageAddr)
    IN  IF ~frame.ok \/ ~isPageAligned(frame.val) THEN VmRes(vm, None)
        ELSE LET ins == insertPage(vm, frame.val, addr, flags, heapOk)
             IN  IF ~ins.ok THEN VmRes(vm, None)
                 ELSE VmRes(ins.vm, SomeVal(frame.val))

\* getPage::<DirectMapping>.  entry is a reference: the address returned is
\* read from the slot after it was written.
getPage(vm, addr, flags, heapOk) ==
    LET table == getPageTable(vm, addr, flags, heapOk)
    IN  IF ~table.ok THEN VmRes(vm, None)
        ELSE LET entry == table.vm.tables[table.val][get_page(addr)]
             IN  IF ~page_is_present(entry) /\ ~page_is_free(entry)
                 THEN LET page == mapPage(table.vm, addr, flags, heapOk)
                      IN  IF ~page.ok \/ ~isPageAligned(page.val)
                          THEN VmRes(page.vm, None)
                          ELSE VmRes(page.vm,
                                     SomeVal(page_address(tryGetPageEntry(page.vm, addr).val)))
                 ELSE IF ~page_is_present(entry) /\ page_is_free(entry)
                 THEN VmRes(SetPageEntry(table.vm, addr, BitOr(entry, PAGE_PRESENT)),
                            SomeVal(page_address(entry)))
                 ELSE VmRes(table.vm, SomeVal(page_address(entry)))

\* getPhysicalAddress::<DirectMapping>
getPhysicalAddress(vm, addr, flags, heapOk) ==
    LET page == getPage(vm, addr, flags, heapOk)
    IN  IF ~page.ok \/ ~isPageAligned(page.val) THEN VmRes(page.vm, None)
        ELSE VmRes(page.vm, SomeVal(page.val + get_page_offset(addr)))

\* PageIter::next and EntryIter::next go on while this holds.  The source
\* compares a field `current` that neither iterator has; the range is the
\* one the comments of foreach_page_in and foreach_entry_in give: the
\* page-aligned addresses whose pages contain addresses of the range.
IterGoesOn(start, next, end) == start <= next /\ next < end

\* foreach_page_in(start, end), as the sequence of the addresses yielded
RECURSIVE PagesFrom(_, _, _)
PagesFrom(start, next, end) ==
    IF IterGoesOn(start, next, end)
    THEN <<next>> \o PagesFrom(start, next + PAGE_SIZE, end)
    ELSE <<>>

\* usize::MAX stands for `no end`; every address is below it
NoEnd == Pow2(30)

foreach_page_in(start, end) ==
    PagesFrom(PAGE_ALIGN(start), PAGE_ALIGN(start), IF end = 0 THEN NoEnd ELSE end)

\* nextAddress
nextAddress(vm, curr) ==
    IF curr = TABLE_ALIGN(curr) /\ ~page_is_present(getPageTableEntry(vm, curr))
    THEN curr + TABLE_SIZE
    ELSE curr + PAGE_SIZE

\* freeMappedPage::<DirectMapping>: freeAddressMapping and
\* unreserveAddressMapping do nothing
freeMappedPage(vm, addr) ==
    LET entry == tryGetPageEntry(vm, addr)
    IN  IF entry.ok /\ page_is_present(entry.val)
        THEN SetPageEntry(vm, addr, no_page)
        ELSE vm

\* freeMemoryRange::<DirectMapping>: the loop over foreach_entry_in, whose
\* iterator adds the address nextAddress returns to next
RECURSIVE FreeFrom(_, _, _, _)
FreeFrom(vm, start, next, end) ==
    IF IterGoesOn(start, next, end) /\ get_page_table(next) \in TIdx
    THEN FreeFrom(freeMappedPage(vm, next), start, next + nextAddress(vm, next), end)
    ELSE vm

freeMemoryRange(vm, start, end) ==
    FreeFrom(vm, PAGE_ALIGN(start), PAGE_ALIGN(start), IF end = 0 THEN NoEnd ELSE end)

\* Err(address): ok is FALSE and val is the address
ErrVal(v) == [ok |-> FALSE, val |-> v]

\* mapMemoryRange::<DirectMapping>: the loop, then the lookup of start.
\* The arm `None => Err(addr - 1),` of the loop has no `return`: with
\* returns the arm is read as `return Err(addr - 1)`, without it as
\* written, a value that is dropped, and the loop goes on with the next
\* page.  The loop's result is ok when it ran to its end.  addr - 1 of
\* address 0 is usize::MAX, written -1 as in the Err(-1) of the source.
RECURSIVE MapFrom(_, _, _, _, _)
MapFrom(vm, pages, flags, heapOk, returns) ==
    IF pages = <<>> THEN VmRes(vm, SomeVal(0))
    ELSE LET page == mapPage(vm, Head(pages), flags, heapOk)
         IN  IF ~page.ok
             THEN IF returns THEN VmRes(page.vm, ErrVal(Head(pages) - 1))
                  ELSE MapFrom(page.vm, Tail(pages), flags, heapOk, returns)
             ELSE IF ~isPageAligned(page.val)
             THEN VmRes(page.vm, ErrVal(Head(pages) - 1))
             ELSE MapFrom(page.vm, Tail(pages), flags, heapOk, returns)

mapMemoryRange(vm, start, end, flags, heapOk, returns) ==
    LET loop == MapFrom(vm, foreach_page_in(start, end), flags, heapOk, returns)
        startPage == tryGetPage(loop.vm, start)
    IN  IF ~loop.ok THEN VmRes(loop.vm, ErrVal(loop.val))
        ELSE IF ~startPage.ok THEN VmRes(loop.vm, ErrVal(-1))
        ELSE VmRes(loop.vm, SomeVal(startPage.val + get_page_offset(start)))

\* getPageFlags: the entry of addr in the current directory
getPageFlags(vm, addr) == tryGetPageEntry(vm, addr)

isUserReadableAddr(vm, addr, len) ==
    \A curr \in SeqRange(foreach_page_in(addr, addr + len)) :
        LET entry == getPageFlags(vm, curr)
        IN  /\ entry.ok
            /\ page_is_present(entry.val)
            /\ GET_BIT(entry.val, PAGE_USER_ACCESS_BIT)

isUserWritableAddr(vm, addr, len) ==
    \A curr \in SeqRange(foreach_page_in(addr, addr + len)) :
        LET entry == getPageFlags(vm, curr)
        IN  /\ entry.ok
            /\ page_is_present(entry.val)
            /\ GET_BIT(entry.val, PAGE_USER_ACCESS_BIT)
            /\ GET_BIT(entry.val, PAGE_WRITABLE_BIT)

\* PageEntry::page_accessed
page_accessed(e) == GET_BIT(e, 5)

\* isUnmappedAddr
isUnmappedAddr(vm, addr, len) ==
    \A curr \in SeqRange(foreach_page_in(addr, addr + len)) :
        LET entry == getPageFlags(vm, curr)
        IN  IF ~entry.ok THEN FALSE ELSE ~page_accessed(entry.val)

\* the body of the loop of setRangeFlags for the entry of addr
setEntryFlags(vm, addr, flags) ==
    LET entry == tryGetPageEntry(vm, addr)
    IN  IF ~entry.ok THEN vm
        ELSE IF ~page_is_present(entry.val) THEN vm
        ELSE IF page_is_copy_on_write(entry.val)
        THEN SetPageEntry(vm, addr,
                 BitOr(BitClear(BitOr(BitOr(page_address(entry.val), PAGE_PRESENT), flags),
                                PAGE_WRITABLE),
                       PAGE_COPY_ON_WRITE))
        ELSE SetPageEntry(vm, addr, BitOr(BitOr(page_address(entry.val), PAGE_PRESENT), flags))

\* PageDirectory::setRangeFlags: the loop over foreach_entry_in
RECURSIVE SetFrom(_, _, _, _, _)
SetFrom(vm, start, next, end, flags) ==
    IF IterGoesOn(start, next, end) /\ get_page_table(next) \in TIdx
    THEN SetFrom(setEntryFlags(vm, next, flags), start, next + nextAddress(vm, next),
                 end, flags)
    ELSE vm

setRangeFlags(vm, start, end, flags) ==
    SetFrom(vm, PAGE_ALIGN(start), PAGE_ALIGN(start), IF end = 0 THEN NoEnd ELSE end, flags)

\* static mut _currentThread and noThreadRefCount, ThreadBlock::new, the
\* static allocator
NInit ==
    /\ currentThread = NULL
    /\ pre = [fn |-> "none", x |-> NULL, schedNext |-> NULL,
              runq |-> NewQueue(Threads),
              scheduled |-> [t \in Threads |-> FALSE],
              currentThread |-> NULL, after |-> NULL]
    /\ swept = <<>>
    /\ noThreadRefCount = 0
    /\ disabledInterruptsRefCount = [t \in Threads |-> 0]
    /\ bytesFree = 0
    /\ fpre = [fn |-> "none", t |-> NULL, count |-> 0, bytesFree |-> 0]
    /\ regionStart = 0
    /\ regionEnd = 0
    /\ currFrame = 0
    /\ frameFree = {}
    /\ reserved = 0
    /\ tcbRefCount = [t \in Threads |-> 0]
    /\ liveHandles = [t \in Threads |-> 0]
    /\ items = <<>>
    /\ popped = <<>>
    /\ pte = 0
    /\ dir = NewDirectory
    /\ tables = [a \in TableAddrs |-> NewTable]
    /\ vmcall = [fn |-> "none", addr |-> 0, end |-> 0, flags |-> {}]
    /\ vmret = None
    /\ pteOp = <<"none", "none">>

\* No call on the queue yet.
NoCall == <<"new", NULL, NULL, FALSE, 0>>

\* The state after construction of every object.
ObjInit ==
    /\ queue = NewQueue(Elems)
    /\ order = <<>>
    /\ qcall = NoCall
    /\ NInit
    /\ TInit /\ OLInit /\ MInit /\ CInit /\ SInit /\ RWInit

\* Kernel code is interruptible unless it holds a guard.
AllInit ==
    /\ ObjInit
    /\ interruptsEnabled = TRUE

(***************************************************************************)
(* sync/owned_lock.rs                                                      *)
(***************************************************************************)

\* The other threads' tryLock calls in progress stop counting as calls made
\* on a transferred lock once thread t creates, drops or transfers a guard.
Untag(t) ==
    [u \in Threads |->
        IF u # t /\ ~Idle(u) /\ op[u][1] = "tryLock"
        THEN <<"tryLock", "none">> ELSE op[u]]

\* A tryLock that forgets to compare the owner with the caller.
TryLockGrants_NoOwnerTest(o, me, gc) == ~gc

\* A tryLock whose negation covers the whole test.
TryLockGrants_NegatedTest(o, me, gc) == ~(o = me /\ gc)

\* tryLock, line 83: the guard is created when the owner just read is the
\* caller and the latch is clear.
TryLockGrants(o, me, gc) == o = me /\ ~gc

\* OwnedLock::tryLock.  try_lock(flag) is true when the swap found the flag
\* LOCKED already, and only a caller that found it UNLOCKED stores itself.
tryLock(t) ==
    /\ InFn(t, "tryLock")
    /\ LET l == Top(t).obj
       IN  CASE Top(t).pc = "swap" ->
                  /\ status' = [status EXCEPT ![l] = LOCKED]
                  /\ Goto(t, IF status[l] = LOCKED THEN "load" ELSE "store")
                  /\ UNCHANGED <<owner, guardCreated, guards, handed, op>>
             [] Top(t).pc = "store" ->
                  /\ owner' = [owner EXCEPT ![l] = t]
                  /\ Goto(t, "load")
                  /\ UNCHANGED <<status, guardCreated, guards, handed, op>>
             [] Top(t).pc = "load" ->
                  /\ GotoX(t, "check", owner[l])
                  /\ UNCHANGED <<olvars, op>>
             [] Top(t).pc = "check" ->
                  /\ IF TryLockGrants(Top(t).x, t, guardCreated[l])
                     THEN Goto(t, "set")
                     ELSE Return(t, Err(Top(t).x))
                  /\ UNCHANGED <<olvars, op>>
             [] Top(t).pc = "set" ->
                  /\ guardCreated' = [guardCreated EXCEPT ![l] = TRUE]
                  /\ guards' = [guards EXCEPT ![l] = @ \cup {t}]
                  /\ handed' = [handed EXCEPT ![l] = NULL]
                  /\ op' = Untag(t)
                  /\ Return(t, Ok)
                  /\ UNCHANGED <<status, owner>>

\* OwnedLock::waitForLock: waitForLockWith with the closure that yields.
waitForLock(l) == Frame("waitForLock", "try", l, NULL)

\* OwnedLock::waitForLockWith.  The wait closure is the one of waitForLock,
\* which yields, in a frame of waitForLock and the empty one of getSchedule
\* otherwise.
waitForLockWith(t) ==
    /\ InFn(t, "waitForLock") \/ InFn(t, "waitForLockWith")
    /\ UNCHANGED <<olvars, op>>
    /\ LET l == Top(t).obj
           \* the call of the closure, and its return to p
           wait(p) == IF Top(t).fn = "waitForLock"
                      THEN Call(t, p, Frame("yieldThread", "switch", NoObj, NULL))
                      ELSE Goto(t, IF p = "latch" THEN "waitedLatch" ELSE "waitedTry")
       IN  CASE Top(t).pc = "try" ->
                  Call(t, "match", Frame("tryLock", "swap", l, NULL))
             [] Top(t).pc = "match" ->
                  IF ret[t].ok THEN Return(t, Ok)
                  ELSE IF ret[t].owner = t THEN Goto(t, "latch")
                  ELSE Goto(t, "wait")
             [] Top(t).pc = "latch" ->
                  \* while self.guardCreated.get() { wait(None) }
                  IF guardCreated[l] THEN wait("latch") ELSE Goto(t, "try")
             [] Top(t).pc = "wait" ->
                  wait("try")
             [] Top(t).pc = "waitedLatch" ->
                  Goto(t, "latch")
             [] Top(t).pc = "waitedTry" ->
                  Goto(t, "try")

\* yieldThread and yieldThreadWithoutInterrupts, seen from the locks: the
\* caller is switched out and later resumes.
yieldThread(t) ==
    /\ InFn(t, "yieldThread")
    /\ Return(t, NoRet)
    /\ UNCHANGED <<olvars, op>>

\* OwnedLockGuard::transferLockTo: x is the new owner.
transferLockTo(t) ==
    /\ InFn(t, "transferLockTo")
    /\ LET l == Top(t).obj
       IN  /\ owner' = [owner EXCEPT ![l] = Top(t).x]
           /\ guards' = [guards EXCEPT ![l] = @ \ {t}]
           /\ handed' = [handed EXCEPT ![l] = Top(t).x]
    /\ op' = Untag(t)
    /\ Return(t, NoRet)
    /\ UNCHANGED <<status, guardCreated>>

\* A drop that releases the flag before it clears the owner.
OwnedLockGuard_drop_UnlockFirst(t) ==
    /\ InFn(t, "OwnedLockGuard_drop")
    /\ LET l == Top(t).obj
       IN  CASE Top(t).pc = "owner" ->
                  /\ status' = [status EXCEPT ![l] = UNLOCKED]
                  /\ guards' = [guards EXCEPT ![l] = @ \ {t}]
                  /\ handed' = [handed EXCEPT ![l] = NULL]
                  /\ op' = Untag(t)
                  /\ Goto(t, "unlock")
                  /\ UNCHANGED <<owner, guardCreated>>
             [] Top(t).pc = "unlock" ->
                  /\ owner' = [owner EXCEPT ![l] = NULL]
                  /\ Return(t, NoRet)
                  /\ UNCHANGED <<status, guardCreated, guards, handed, op>>

\* OwnedLockGuard::drop
OwnedLockGuard_drop(t) ==
    /\ InFn(t, "OwnedLockGuard_drop")
    /\ LET l == Top(t).obj
       IN  CASE Top(t).pc = "owner" ->
                  /\ owner' = [owner EXCEPT ![l] = NULL]
                  /\ guards' = [guards EXCEPT ![l] = @ \ {t}]
                  /\ handed' = [handed EXCEPT ![l] = NULL]
                  /\ op' = Untag(t)
                  /\ Goto(t, "unlock")
                  /\ UNCHANGED <<status, guardCreated>>
             [] Top(t).pc = "unlock" ->
                  /\ status' = [status EXCEPT ![l] = UNLOCKED]
                  /\ Return(t, NoRet)
                  /\ UNCHANGED <<owner, guardCreated, guards, handed, op>>

(***************************************************************************)
(* sync/mutex.rs.  A frame of lock(), tryLock() or drop() has the mutex as *)
(* obj; the WaitListNode of thread t is node t of the waitlist.            *)
(***************************************************************************)

SeqWithout(s, e) == SelectSeq(s, LAMBDA y : y # e)

\* The WaitListNode a call of lock() builds: hasLock false, Link::new().
NewNode(q, t) ==
    [q EXCEPT !.next[t] = NULL, !.prev[t] = NULL, !.inQueue[t] = FALSE]

\* Mutex::lock
Mutex_lock(t) ==
    /\ InFn(t, "Mutex_lock")
    /\ UNCHANGED <<olvars, op>>
    /\ LET m == Top(t).obj
       IN  CASE Top(t).pc = "start" ->
                  /\ wq' = [wq EXCEPT ![m] = NewNode(@, t)]
                  /\ hasLock' = [hasLock EXCEPT ![m][t] = FALSE]
                  /\ Call(t, "haveWaitList", waitForLock(waitList(m)))
                  /\ UNCHANGED <<mguards, regOrder>>
             [] Top(t).pc = "haveWaitList" ->
                  \* waitList.tail().is_none() && let Ok(guard) = tryLock()
                  /\ IF wq[m].queueBack = NULL
                     THEN Call(t, "fast", Frame("tryLock", "swap", mutexLock(m), NULL))
                     ELSE Goto(t, "register")
                  /\ UNCHANGED mvars
             [] Top(t).pc = "fast" ->
                  /\ IF ret[t].ok
                     THEN Call(t, "fastDone",
                               Frame("OwnedLockGuard_drop", "owner", waitList(m), NULL))
                     ELSE Goto(t, "register")
                  /\ UNCHANGED mvars
             [] Top(t).pc = "fastDone" ->
                  /\ mguards' = [mguards EXCEPT ![m] = @ \cup {t}]
                  /\ Return(t, Ok)
                  /\ UNCHANGED <<wq, hasLock, regOrder>>
             [] Top(t).pc = "register" ->
                  /\ wq' = [wq EXCEPT ![m] = insert_tail(@, t)]
                  /\ regOrder' = [regOrder EXCEPT ![m] = Append(SeqWithout(@, t), t)]
                  /\ Call(t, "try",
                          Frame("OwnedLockGuard_drop", "owner", waitList(m), NULL))
                  /\ UNCHANGED <<hasLock, mguards>>
             [] Top(t).pc = "try" ->
                  /\ Call(t, "loop", Frame("tryLock", "swap", mutexLock(m), NULL))
                  /\ UNCHANGED mvars
             [] Top(t).pc = "loop" ->
                  /\ IF ret[t].ok
                     THEN Goto(t, "cleanup")
                     ELSE Call(t, "try", Frame("yieldThread", "switch", NoObj, NULL))
                  /\ UNCHANGED mvars
             [] Top(t).pc = "cleanup" ->
                  \* a thread that stole the lock takes itself off the waitlist
                  /\ IF ~hasLock[m][t]
                     THEN Call(t, "steal", waitForLock(waitList(m)))
                     ELSE Goto(t, "done")
                  /\ UNCHANGED mvars
             [] Top(t).pc = "steal" ->
                  /\ wq' = [wq EXCEPT ![m] = remove(@, t)]
                  /\ Call(t, "done",
                          Frame("OwnedLockGuard_drop", "owner", waitList(m), NULL))
                  /\ UNCHANGED <<hasLock, mguards, regOrder>>
             [] Top(t).pc = "done" ->
                  /\ mguards' = [mguards EXCEPT ![m] = @ \cup {t}]
                  /\ regOrder' = [regOrder EXCEPT ![m] = SeqWithout(@, t)]
                  /\ Return(t, Ok)
                  /\ UNCHANGED <<wq, hasLock>>

\* Mutex::tryLock.  The waitList guard bound by the let chain is dropped on
\* every way out.
Mutex_tryLock(t) ==
    /\ InFn(t, "Mutex_tryLock")
    /\ UNCHANGED <<olvars, op, wq, hasLock, regOrder>>
    /\ LET m == Top(t).obj
           dropWaitList(p) ==
               Call(t, p, Frame("OwnedLockGuard_drop", "owner", waitList(m), NULL))
       IN  CASE Top(t).pc = "start" ->
                  /\ Call(t, "haveWaitList", Frame("tryLock", "swap", waitList(m), NULL))
                  /\ UNCHANGED mguards
             [] Top(t).pc = "haveWaitList" ->
                  /\ IF ~ret[t].ok THEN Return(t, NoRet)
                     ELSE IF wq[m].queueBack # NULL THEN dropWaitList("none")
                     ELSE Call(t, "haveMutex",
                               Frame("tryLock", "swap", mutexLock(m), NULL))
                  /\ UNCHANGED mguards
             [] Top(t).pc = "haveMutex" ->
                  /\ IF ret[t].ok THEN dropWaitList("some") ELSE dropWaitList("none")
                  /\ UNCHANGED mguards
             [] Top(t).pc = "some" ->
                  /\ mguards' = [mguards EXCEPT ![m] = @ \cup {t}]
                  /\ Return(t, Ok)
             [] Top(t).pc = "none" ->
                  /\ Return(t, NoRet)
                  /\ UNCHANGED mguards

\* MutexGuard::drop.  x is nextRunner, the front of the waitlist.
MutexGuard_drop(t) ==
    /\ InFn(t, "MutexGuard_drop")
    /\ UNCHANGED <<olvars, op, regOrder>>
    /\ LET m == Top(t).obj
       IN  CASE Top(t).pc = "start" ->
                  /\ mguards' = [mguards EXCEPT ![m] = @ \ {t}]
                  /\ Call(t, "match", waitForLock(waitList(m)))
                  /\ UNCHANGED <<wq, hasLock>>
             [] Top(t).pc = "match" ->
                  /\ IF wq[m].queueFront = NULL
                     THEN Call(t, "unlocked",
                               Frame("OwnedLockGuard_drop", "owner", mutexLock(m), NULL))
                     ELSE GotoX(t, "remove", wq[m].queueFront)
                  /\ UNCHANGED mvars
             [] Top(t).pc = "unlocked" ->
                  \* the waitList guard is dropped at the end of the function
                  /\ Call(t, "end",
                          Frame("OwnedLockGuard_drop", "owner", waitList(m), NULL))
                  /\ UNCHANGED mvars
             [] Top(t).pc = "remove" ->
                  /\ wq' = [wq EXCEPT ![m] = remove(@, Top(t).x)]
                  /\ Call(t, "transfer",
                          Frame("OwnedLockGuard_drop", "owner", waitList(m), NULL))
                  /\ UNCHANGED <<hasLock, mguards>>
             [] Top(t).pc = "transfer" ->
                  \* nextRunner.thread is the thread that built the node
                  /\ Call(t, "signal",
                          Frame("transferLockTo", "store", mutexLock(m), Top(t).x))
                  /\ UNCHANGED mvars
             [] Top(t).pc = "signal" ->
                  /\ hasLock' = [hasLock EXCEPT ![m][Top(t).x] = TRUE]
                  /\ Goto(t, "end")
                  /\ UNCHANGED <<wq, mguards>>
             [] Top(t).pc = "end" ->
                  /\ Return(t, NoRet)
                  /\ UNCHANGED mvars

(***************************************************************************)
(* thread/scheduler.rs.  The run queue links the threads by scheduleLink;  *)
(* its lock is taken with the closure that does nothing while it waits.    *)
(***************************************************************************)

\* getSchedule
getSchedule == Frame("waitForLockWith", "try", schedLock, NULL)

dropSchedule == Frame("OwnedLockGuard_drop", "owner", schedLock, NULL)

\* getNextThread.  x is curr, the thread it returns.
getNextThread(t) ==
    /\ InFn(t, "getNextThread")
    /\ UNCHANGED <<olvars, op, runq, scheduled>>
    /\ CASE Top(t).pc = "start" ->
              /\ Call(t, "body", getSchedule)
              /\ UNCHANGED schedNext
         [] Top(t).pc = "body" ->
              /\ schedNext' =
                     IF schedNext = NULL \/ runq.next[schedNext] = NULL
                     THEN runq.queueFront
                     ELSE runq.next[schedNext]
              /\ GotoX(t, "drop", schedNext)
         [] Top(t).pc = "drop" ->
              /\ Call(t, "end", dropSchedule)
              /\ UNCHANGED schedNext
         [] Top(t).pc = "end" ->
              /\ Return(t, IF Top(t).x = NULL THEN NoRet ELSE Some(Top(t).x))
              /\ UNCHANGED schedNext
    /\ swept' = IF Top(t).pc = "end" /\ Len(stack[t]) = 1
                THEN Append(swept, Top(t).x)
                ELSE swept

\* scheduleThread.  x is the thread to add.
scheduleThread(t) ==
    /\ InFn(t, "scheduleThread")
    /\ UNCHANGED <<olvars, op>>
    /\ LET thread == Top(t).x
       IN  CASE Top(t).pc = "start" ->
                  /\ Call(t, "swap", getSchedule)
                  /\ UNCHANGED svars
             [] Top(t).pc = "swap" ->
                  /\ scheduled' = [scheduled EXCEPT ![thread] = TRUE]
                  /\ Goto(t, IF scheduled[thread] THEN "dropErr" ELSE "insert")
                  /\ UNCHANGED <<schedNext, runq>>
             [] Top(t).pc = "insert" ->
                  /\ IF schedNext = NULL
                     THEN /\ runq' = insert_tail(runq, thread)
                          /\ schedNext' = thread
                     ELSE /\ runq' = insert_after(runq, schedNext, thread)
                          /\ UNCHANGED schedNext
                  /\ Goto(t, "dropOk")
                  /\ UNCHANGED scheduled
             [] Top(t).pc = "dropOk" ->
                  /\ Call(t, "endOk", dropSchedule)
                  /\ UNCHANGED svars
             [] Top(t).pc = "dropErr" ->
                  /\ Call(t, "endErr", dropSchedule)
                  /\ UNCHANGED svars
             [] Top(t).pc = "endOk" ->
                  /\ Return(t, Ok)
                  /\ UNCHANGED svars
             [] Top(t).pc = "endErr" ->
                  /\ Return(t, NoRet)
                  /\ UNCHANGED svars

\* descheduleThread.  x is the thread to remove; getNextThread is called
\* while the guard of the schedule is still held.
descheduleThread(t) ==
    /\ InFn(t, "descheduleThread")
    /\ UNCHANGED <<olvars, op, schedNext>>
    /\ LET thread == Top(t).x
       IN  CASE Top(t).pc = "swap" ->
                  /\ scheduled' = [scheduled EXCEPT ![thread] = FALSE]
                  /\ IF scheduled[thread]
                     THEN Call(t, "remove", getSchedule)
                     ELSE Return(t, NoRet)
                  /\ UNCHANGED runq
             [] Top(t).pc = "remove" ->
                  /\ runq' = remove(runq, thread)
                  /\ IF schedNext = thread
                     THEN Call(t, "drop", Frame("getNextThread", "start", NoObj, NULL))
                     ELSE Goto(t, "drop")
                  /\ UNCHANGED scheduled
             [] Top(t).pc = "drop" ->
                  /\ Call(t, "end", dropSchedule)
                  /\ UNCHANGED <<runq, scheduled>>
             [] Top(t).pc = "end" ->
                  /\ Return(t, Ok)
                  /\ UNCHANGED <<runq, scheduled>>

\* blockUntil on the doNotDeschedule flag of the caller's QueueNode
blockUntil(t) ==
    /\ InFn(t, "blockUntil")
    /\ UNCHANGED <<olvars, op, svars>>
    /\ CASE Top(t).pc = "load" ->
              IF doNotDeschedule[t]
              THEN Return(t, NoRet)
              ELSE Call(t, "yield", Frame("descheduleThread", "swap", NoObj, t))
         [] Top(t).pc = "yield" ->
              Call(t, "load", Frame("yieldThread", "switch", NoObj, NULL))

(***************************************************************************)
(* sync/cond.rs.  A frame has the cond as obj; the QueueNode of thread t   *)
(* is node t of the cond's queue.                                          *)
(***************************************************************************)

\* Cond::waitForCond.  obj is the name of the cond followed by the name of
\* the mutex of the guard that was passed in.  The
\* guard of the queue is a local that lives to the end of the function.
waitForCond(t) ==
    /\ InFn(t, "waitForCond")
    /\ UNCHANGED <<olvars, op, sigFor>>
    /\ LET c == <<Head(Top(t).obj)>>
           mutex == Tail(Top(t).obj)
       IN  CASE Top(t).pc = "start" ->
                  /\ cq' = [cq EXCEPT ![c] = NewNode(@, t)]
                  /\ doNotDeschedule' = [doNotDeschedule EXCEPT ![t] = TRY_TO_DESCHEDULE]
                  /\ Call(t, "insert", Frame("Mutex_lock", "start", queueMutex(c), NULL))
             [] Top(t).pc = "insert" ->
                  /\ cq' = [cq EXCEPT ![c] = insert_tail(@, t)]
                  /\ Goto(t, "unlock")
                  /\ UNCHANGED doNotDeschedule
             [] Top(t).pc = "unlock" ->
                  /\ Call(t, "block", Frame("MutexGuard_drop", "start", mutex, NULL))
                  /\ UNCHANGED <<cq, doNotDeschedule>>
             [] Top(t).pc = "block" ->
                  /\ Call(t, "relock", Frame("blockUntil", "load", NoObj, NULL))
                  /\ UNCHANGED <<cq, doNotDeschedule>>
             [] Top(t).pc = "relock" ->
                  /\ Call(t, "dropQueue", Frame("Mutex_lock", "start", mutex, NULL))
                  /\ UNCHANGED <<cq, doNotDeschedule>>
             [] Top(t).pc = "dropQueue" ->
                  /\ Call(t, "end", Frame("MutexGuard_drop", "start", queueMutex(c), NULL))
                  /\ UNCHANGED <<cq, doNotDeschedule>>
             [] Top(t).pc = "end" ->
                  /\ Return(t, Ok)
                  /\ UNCHANGED <<cq, doNotDeschedule>>

\* Cond::signalAndRemoveQueueNode.  x is the node.
signalAndRemoveQueueNode(t) ==
    /\ InFn(t, "signalAndRemoveQueueNode")
    /\ UNCHANGED <<olvars, op, sigFor>>
    /\ LET c == Top(t).obj
           node == Top(t).x
       IN  CASE Top(t).pc = "remove" ->
                  /\ cq' = [cq EXCEPT ![c] = remove(@, node)]
                  /\ Goto(t, "send_signal")
                  /\ UNCHANGED doNotDeschedule
             [] Top(t).pc = "send_signal" ->
                  /\ doNotDeschedule' = [doNotDeschedule EXCEPT ![node] = DO_NOT_DESCHEDULE]
                  /\ Call(t, "end", Frame("scheduleThread", "start", NoObj, node))
                  /\ UNCHANGED cq
             [] Top(t).pc = "end" ->
                  /\ Return(t, NoRet)
                  /\ UNCHANGED <<cq, doNotDeschedule>>

\* Cond::signalCond
signalCond(t) ==
    /\ InFn(t, "signalCond")
    /\ UNCHANGED <<olvars, op, cq, doNotDeschedule>>
    /\ LET c == Top(t).obj
       IN  CASE Top(t).pc = "start" ->
                  /\ sigFor' = [sigFor EXCEPT ![t] =
                                   IF cq[c].queueFront = NULL THEN {}
                                   ELSE {cq[c].queueFront}]
                  /\ Call(t, "front", Frame("Mutex_lock", "start", queueMutex(c), NULL))
             [] Top(t).pc = "front" ->
                  /\ IF cq[c].queueFront # NULL
                     THEN Call(t, "drop", Frame("signalAndRemoveQueueNode", "remove",
                                                c, cq[c].queueFront))
                     ELSE Goto(t, "drop")
                  /\ UNCHANGED sigFor
             [] Top(t).pc = "drop" ->
                  /\ Call(t, "end", Frame("MutexGuard_drop", "start", queueMutex(c), NULL))
                  /\ UNCHANGED sigFor
             [] Top(t).pc = "end" ->
                  /\ sigFor' = [sigFor EXCEPT ![t] = {}]
                  /\ Return(t, NoRet)

\* Cond::broadcastCond.  x is the next field of the iterator, read before
\* the loop body runs on the current node.
broadcastCond(t) ==
    /\ InFn(t, "broadcastCond")
    /\ UNCHANGED <<olvars, op, cq, doNotDeschedule>>
    /\ LET c == Top(t).obj
       IN  CASE Top(t).pc = "start" ->
                  /\ sigFor' = [sigFor EXCEPT ![t] = SeqRange(iter(cq[c]))]
                  /\ Call(t, "iter", Frame("Mutex_lock", "start", queueMutex(c), NULL))
             [] Top(t).pc = "iter" ->
                  /\ GotoX(t, "next", cq[c].queueFront)
                  /\ UNCHANGED sigFor
             [] Top(t).pc = "next" ->
                  /\ IF Top(t).x = NULL
                     THEN Goto(t, "drop")
                     ELSE CallX(t, "next", cq[c].next[Top(t).x],
                                Frame("signalAndRemoveQueueNode", "remove", c, Top(t).x))
                  /\ UNCHANGED sigFor
             [] Top(t).pc = "drop" ->
                  /\ Call(t, "end", Frame("MutexGuard_drop", "start", queueMutex(c), NULL))
                  /\ UNCHANGED sigFor
             [] Top(t).pc = "end" ->
                  /\ sigFor' = [sigFor EXCEPT ![t] = {}]
                  /\ Return(t, NoRet)

(***************************************************************************)
(* sync/rwlock.rs: one RWLock.  The guard named status is a local of each  *)
(* function and is dropped when the function ends.                         *)
(***************************************************************************)

\* An RWLock whose functions go on without taking the mutex of status.
lockStatus_Skipped == Frame("yieldThread", "switch", NoObj, NULL)

\* self.status.lock()
lockStatus == Frame("Mutex_lock", "start", statusMutex, NULL)
dropStatus == Frame("MutexGuard_drop", "start", statusMutex, NULL)

\* the test of the loop in lockRead
ReadMustWait == mode = "Write" \/ writerWaitlistSize > 0

\* the test of the loop in lockWrite
WriteMustWait == mode = "Write" \/ readerCount > 0

\* RWLock::lockRead
lockRead(t) ==
    /\ InFn(t, "lockRead")
    /\ UNCHANGED <<olvars, op, writerWaitlistSize, wguards, waiting>>
    /\ CASE Top(t).pc = "start" ->
              /\ ahead' = [ahead EXCEPT ![t] = waiting]
              /\ Call(t, "check", lockStatus)
              /\ UNCHANGED <<readerCount, mode, rguards>>
         [] Top(t).pc = "check" ->
              /\ IF ReadMustWait
                 THEN Call(t, "check", Frame("waitForCond", "start", canRead \o statusMutex, NULL))
                 ELSE Goto(t, "count")
              /\ UNCHANGED <<readerCount, mode, rguards, ahead>>
         [] Top(t).pc = "count" ->
              /\ readerCount' = readerCount + 1
              /\ Goto(t, "mode")
              /\ UNCHANGED <<mode, rguards, ahead>>
         [] Top(t).pc = "mode" ->
              /\ mode' = "Read"
              /\ rguards' = rguards \cup {t}
              /\ Call(t, "end", dropStatus)
              /\ UNCHANGED <<readerCount, ahead>>
         [] Top(t).pc = "end" ->
              /\ Return(t, Ok)
              /\ UNCHANGED <<readerCount, mode, rguards, ahead>>

\* RWLock::lockWrite
lockWrite(t) ==
    /\ InFn(t, "lockWrite")
    /\ UNCHANGED <<olvars, op, readerCount, rguards>>
    /\ CASE Top(t).pc = "start" ->
              /\ Call(t, "join", lockStatus)
              /\ UNCHANGED <<writerWaitlistSize, mode, wguards, waiting, ahead>>
         [] Top(t).pc = "join" ->
              /\ writerWaitlistSize' = writerWaitlistSize + 1
              /\ waiting' = waiting \cup {t}
              /\ Goto(t, "check")
              /\ UNCHANGED <<mode, wguards, ahead>>
         [] Top(t).pc = "check" ->
              /\ IF WriteMustWait
                 THEN Call(t, "check", Frame("waitForCond", "start", canWrite \o statusMutex, NULL))
                 ELSE Goto(t, "leave")
              /\ UNCHANGED <<writerWaitlistSize, mode, wguards, waiting, ahead>>
         [] Top(t).pc = "leave" ->
              /\ writerWaitlistSize' = writerWaitlistSize - 1
              /\ Goto(t, "mode")
              /\ UNCHANGED <<mode, wguards, waiting, ahead>>
         [] Top(t).pc = "mode" ->
              /\ mode' = "Write"
              /\ wguards' = wguards \cup {t}
              /\ Call(t, "end", dropStatus)
              /\ UNCHANGED <<writerWaitlistSize, waiting, ahead>>
         [] Top(t).pc = "end" ->
              /\ waiting' = waiting \ {t}
              /\ ahead' = [r \in Threads |-> ahead[r] \ {t}]
              /\ Return(t, Ok)
              /\ UNCHANGED <<writerWaitlistSize, mode, wguards>>

\* ReadGuard::drop.  The guard counts as live until the reader is counted
\* off.
ReadGuard_drop(t) ==
    /\ InFn(t, "ReadGuard_drop")
    /\ UNCHANGED <<olvars, op, writerWaitlistSize, mode, wguards, waiting>>
    /\ CASE Top(t).pc = "start" ->
              /\ Call(t, "count", lockStatus)
              /\ UNCHANGED <<readerCount, rguards, ahead>>
         [] Top(t).pc = "count" ->
              /\ readerCount' = readerCount - 1
              /\ rguards' = rguards \ {t}
              /\ ahead' = [ahead EXCEPT ![t] = {}]
              /\ Goto(t, "test")
         [] Top(t).pc = "test" ->
              /\ IF readerCount = 0
                 THEN Call(t, "drop", Frame("signalCond", "start", canWrite, NULL))
                 ELSE Goto(t, "drop")
              /\ UNCHANGED <<readerCount, rguards, ahead>>
         [] Top(t).pc = "drop" ->
              /\ Call(t, "end", dropStatus)
              /\ UNCHANGED <<readerCount, rguards, ahead>>
         [] Top(t).pc = "end" ->
              /\ Return(t, NoRet)
              /\ UNCHANGED <<readerCount, rguards, ahead>>

\* WriteGuard::drop.  The guard counts as live until the mode is reset.
WriteGuard_drop(t) ==
    /\ InFn(t, "WriteGuard_drop")
    /\ UNCHANGED <<olvars, op, readerCount, writerWaitlistSize, rguards, waiting, ahead>>
    /\ CASE Top(t).pc = "start" ->
              /\ Call(t, "mode", lockStatus)
              /\ UNCHANGED <<mode, wguards>>
         [] Top(t).pc = "mode" ->
              /\ mode' = "Read"
              /\ wguards' = wguards \ {t}
              /\ Goto(t, "test")
         [] Top(t).pc = "test" ->
              /\ IF writerWaitlistSize > 0
                 THEN Call(t, "drop", Frame("signalCond", "start", canWrite, NULL))
                 ELSE Call(t, "drop", Frame("broadcastCond", "start", canRead, NULL))
              /\ UNCHANGED <<mode, wguards>>
         [] Top(t).pc = "drop" ->
              /\ Call(t, "end", dropStatus)
              /\ UNCHANGED <<mode, wguards>>
         [] Top(t).pc = "end" ->
              /\ Return(t, NoRet)
              /\ UNCHANGED <<mode, wguards>>

\* WriteGuard::downgradeRWLock.  self is taken by value and not moved into
\* the result, so the WriteGuard is dropped when the function ends, after
\* the local guard of status.
downgradeRWLock(t) ==
    /\ InFn(t, "downgradeRWLock")
    /\ UNCHANGED <<olvars, op, writerWaitlistSize, wguards, waiting, ahead>>
    /\ CASE Top(t).pc = "start" ->
              /\ Call(t, "count", lockStatus)
              /\ UNCHANGED <<readerCount, mode, rguards>>
         [] Top(t).pc = "count" ->
              /\ readerCount' = readerCount + 1
              /\ Goto(t, "mode")
              /\ UNCHANGED <<mode, rguards>>
         [] Top(t).pc = "mode" ->
              /\ mode' = "Read"
              /\ rguards' = rguards \cup {t}
              /\ Call(t, "dropSelf", dropStatus)
              /\ UNCHANGED readerCount
         [] Top(t).pc = "dropSelf" ->
              /\ Call(t, "end", Frame("WriteGuard_drop", "start", NoObj, NULL))
              /\ UNCHANGED <<readerCount, mode, rguards>>
         [] Top(t).pc = "end" ->
              /\ Return(t, Ok)
              /\ UNCHANGED <<readerCount, mode, rguards>>

(***************************************************************************)
(* thread/context_switch.rs, as the scheduler's clients call it.  x is the *)
(* thread to switch to, or NULL.                                           *)
(***************************************************************************)

\* yieldThreadWithoutInterrupts
yieldThreadWithoutInterrupts(t) ==
    /\ InFn(t, "yieldThreadWithoutInterrupts")
    /\ CASE Top(t).pc = "start" ->
              \* thread.or_else(|| getNextThread(disabledInterrupts))
              IF Top(t).x = NULL
              THEN Call(t, "next", Frame("getNextThread", "start", NoObj, NULL))
              ELSE Goto(t, "to")
         [] Top(t).pc = "next" ->
              IF ret[t].ok
              THEN GotoX(t, "to", ret[t].owner)
              ELSE Return(t, NoRet)
         [] Top(t).pc = "to" ->
              Call(t, "end", Frame("yieldThreadTo", "test", NoObj, Top(t).x))
         [] Top(t).pc = "end" ->
              Return(t, ret[t])

\* yieldThreadTo.  The switch goes through saveAndContinue, whose
\* saveContinuationTo ends in unimplemented!(): the kernel panics there,
\* before continueThread is reached.
yieldThreadTo(t) ==
    /\ InFn(t, "yieldThreadTo")
    /\ CASE Top(t).pc = "test" ->
              IF ~scheduled[Top(t).x]
              THEN Return(t, NoRet)
              ELSE Goto(t, "saveAndContinue")
         [] Top(t).pc = "saveAndContinue" ->
              FALSE

\* continueThread, as the kernel's start calls it on the first thread.
continueThread(thread) ==
    /\ currentThread = NULL
    /\ currentThread' = thread
    /\ UNCHANGED <<pre, swept, ivars, fvars, pvars, wvars, qvars, tvars, olvars, mvars, xvars>>

(***************************************************************************)
(* vm/frame_alloc.rs: the static allocator.  The FREE bit of a frame is    *)
(* kept in the entry that the kernel directory has for the frame's         *)
(* address; the kernel directory maps every frame (manager.rs:45-84), and  *)
(* before initFrameAllocator there is no kernel directory and no entry.    *)
(***************************************************************************)
\* Largest number of frames in the region the allocator is set up with.
NumFrames == 3

\* The frame the region starts at.
FirstFrame == 1

\* initFrameAllocator(kernelDirectory, start, end); x is the number of
\* frames, (end - start) / PAGE_SIZE.  The loop at :52-58 looks up the entry
\* of start in each of its rounds, and runs once per frame.
initFrameAllocator(t) ==
    /\ InFn(t, "initFrameAllocator")
    /\ CASE Top(t).pc = "start" ->
              /\ Call(t, "set", Frame("Mutex_lock", "start", allocator, NULL))
              /\ UNCHANGED <<bytesFree, avars>>
         [] Top(t).pc = "set" ->
              /\ currFrame' = FirstFrame * PAGE_SIZE
              /\ regionStart' = FirstFrame * PAGE_SIZE
              /\ regionEnd' = (FirstFrame + Top(t).x) * PAGE_SIZE
              /\ bytesFree' = Top(t).x * PAGE_SIZE
              /\ Goto(t, "mark")
              /\ UNCHANGED <<frameFree, reserved>>
         [] Top(t).pc = "mark" ->
              /\ frameFree' = IF regionStart < regionEnd
                               THEN frameFree \cup {regionStart}
                               ELSE frameFree
              /\ Goto(t, "drop")
              /\ UNCHANGED <<bytesFree, regionStart, regionEnd, currFrame, reserved>>
         [] Top(t).pc = "drop" ->
              /\ Call(t, "end", Frame("MutexGuard_drop", "start", allocator, NULL))
              /\ UNCHANGED <<bytesFree, avars>>
         [] Top(t).pc = "end" ->
              /\ Return(t, NoRet)
              /\ UNCHANGED <<bytesFree, avars>>

\* reserveFrames.  x is count.
reserveFrames(t) ==
    /\ InFn(t, "reserveFrames")
    /\ UNCHANGED <<regionStart, regionEnd, currFrame, frameFree>>
    /\ CASE Top(t).pc = "start" ->
              /\ Call(t, "test", Frame("Mutex_lock", "start", allocator, NULL))
              /\ UNCHANGED <<bytesFree, reserved>>
         [] Top(t).pc = "test" ->
              IF bytesFree >= Top(t).x * PAGE_SIZE
              THEN /\ bytesFree' = bytesFree - Top(t).x * PAGE_SIZE
                   /\ reserved' = reserved + Top(t).x
                   /\ Goto(t, "dropOk")
              ELSE /\ Goto(t, "dropErr")
                   /\ UNCHANGED <<bytesFree, reserved>>
         [] Top(t).pc = "dropOk" ->
              /\ Call(t, "endOk", Frame("MutexGuard_drop", "start", allocator, NULL))
              /\ UNCHANGED <<bytesFree, reserved>>
         [] Top(t).pc = "dropErr" ->
              /\ Call(t, "endErr", Frame("MutexGuard_drop", "start", allocator, NULL))
              /\ UNCHANGED <<bytesFree, reserved>>
         [] Top(t).pc = "endOk" ->
              /\ Return(t, Ok)
              /\ UNCHANGED <<bytesFree, reserved>>
         [] Top(t).pc = "endErr" ->
              /\ Return(t, NoRet)
              /\ UNCHANGED <<bytesFree, reserved>>

\* unreserveFrames.  x is count.
unreserveFrames(t) ==
    /\ InFn(t, "unreserveFrames")
    /\ UNCHANGED <<regionStart, regionEnd, currFrame, frameFree>>
    /\ CASE Top(t).pc = "start" ->
              /\ Call(t, "add", Frame("Mutex_lock", "start", allocator, NULL))
              /\ UNCHANGED <<bytesFree, reserved>>
         [] Top(t).pc = "add" ->
              /\ bytesFree' = bytesFree + Top(t).x * PAGE_SIZE
              /\ reserved' = reserved - Top(t).x
              /\ Goto(t, "drop")
         [] Top(t).pc = "drop" ->
              /\ Call(t, "end", Frame("MutexGuard_drop", "start", allocator, NULL))
              /\ UNCHANGED <<bytesFree, reserved>>
         [] Top(t).pc = "end" ->
              /\ Return(t, NoRet)
              /\ UNCHANGED <<bytesFree, reserved>>

\* fulfillReservedFrame.  x is curr.  The scan starts one frame after
\* currFrame, wraps only after a step, and ends when it comes round to
\* currFrame.
fulfillReservedFrame(t) ==
    /\ InFn(t, "fulfillReservedFrame")
    /\ UNCHANGED <<bytesFree, regionStart, regionEnd>>
    /\ CASE Top(t).pc = "start" ->
              /\ Call(t, "first", Frame("Mutex_lock", "start", allocator, NULL))
              /\ UNCHANGED <<currFrame, frameFree, reserved>>
         [] Top(t).pc = "first" ->
              /\ GotoX(t, "loop", currFrame + PAGE_SIZE)
              /\ UNCHANGED <<currFrame, frameFree, reserved>>
         [] Top(t).pc = "loop" ->
              IF Top(t).x # currFrame
              THEN IF Top(t).x \in frameFree
                   THEN /\ frameFree' = frameFree \ {Top(t).x}
                        /\ currFrame' = Top(t).x
                        /\ reserved' = reserved - 1
                        /\ Goto(t, "dropSome")
                   ELSE /\ GotoX(t, "loop",
                                 IF Top(t).x + PAGE_SIZE >= regionEnd
                                 THEN regionStart
                                 ELSE Top(t).x + PAGE_SIZE)
                        /\ UNCHANGED <<currFrame, frameFree, reserved>>
              ELSE /\ Goto(t, "dropNone")
                   /\ UNCHANGED <<currFrame, frameFree, reserved>>
         [] Top(t).pc = "dropSome" ->
              /\ Call(t, "endSome", Frame("MutexGuard_drop", "start", allocator, NULL))
              /\ UNCHANGED <<currFrame, frameFree, reserved>>
         [] Top(t).pc = "dropNone" ->
              /\ Call(t, "endNone", Frame("MutexGuard_drop", "start", allocator, NULL))
              /\ UNCHANGED <<currFrame, frameFree, reserved>>
         [] Top(t).pc = "endSome" ->
              /\ Return(t, Some(Top(t).x))
              /\ UNCHANGED <<currFrame, frameFree, reserved>>
         [] Top(t).pc = "endNone" ->
              /\ Return(t, NoRet)
              /\ UNCHANGED <<currFrame, frameFree, reserved>>

\* allocFrame: reserveFrames(1)?; fulfillReservedFrame().
allocFrame(t) ==
    /\ InFn(t, "allocFrame")
    /\ UNCHANGED <<bytesFree, avars>>
    /\ CASE Top(t).pc = "start" ->
              Call(t, "reserved", Frame("reserveFrames", "start", NoObj, 1))
         [] Top(t).pc = "reserved" ->
              IF ret[t].ok
              THEN Call(t, "end", Frame("fulfillReservedFrame", "start", NoObj, NULL))
              ELSE Return(t, NoRet)
         [] Top(t).pc = "end" ->
              Return(t, ret[t])

\* freeFrame.  x is frame.
freeFrame(t) ==
    /\ InFn(t, "freeFrame")
    /\ UNCHANGED <<regionStart, regionEnd, currFrame, reserved>>
    /\ CASE Top(t).pc = "start" ->
              /\ Call(t, "test", Frame("Mutex_lock", "start", allocator, NULL))
              /\ UNCHANGED <<bytesFree, frameFree>>
         [] Top(t).pc = "test" ->
              /\ IF regionStart <= Top(t).x /\ Top(t).x < regionEnd
                 THEN /\ frameFree' = frameFree \cup {Top(t).x}
                      /\ bytesFree' = bytesFree + PAGE_SIZE
                 ELSE UNCHANGED <<bytesFree, frameFree>>
              /\ Goto(t, "drop")
         [] Top(t).pc = "drop" ->
              /\ Call(t, "end", Frame("MutexGuard_drop", "start", allocator, NULL))
              /\ UNCHANGED <<bytesFree, frameFree>>
         [] Top(t).pc = "end" ->
              /\ Return(t, NoRet)
              /\ UNCHANGED <<bytesFree, frameFree>>

(***************************************************************************)
(* sync/disable_interrupts.rs.  Neither function touches the interrupt     *)
(* flag: disableInterrupts only counts, and the body of the test           *)
(* `if refCount == 0` in drop is empty.                                    *)
(***************************************************************************)

\* Nesting depth of the guards.
MaxNest == 3

\* The count that applies: the current thread's, or noThreadRefCount.
refCount ==
    IF currentThread = NULL THEN noThreadRefCount
    ELSE disabledInterruptsRefCount[currentThread]

disableInterrupts ==
    /\ refCount < MaxNest
    /\ IF currentThread = NULL
       THEN /\ noThreadRefCount' = noThreadRefCount + 1
            /\ UNCHANGED disabledInterruptsRefCount
       ELSE /\ disabledInterruptsRefCount' =
                   [disabledInterruptsRefCount EXCEPT ![currentThread] = @ + 1]
            /\ UNCHANGED noThreadRefCount
    /\ UNCHANGED interruptsEnabled
    /\ UNCHANGED <<kvars, swept, fvars, pvars, wvars, qvars, tvars, olvars, mvars, xvars>>

\* Drop of a guard that was created under the count that applies.
DisabledInterruptsGuard_drop ==
    /\ refCount > 0
    /\ IF currentThread = NULL
       THEN /\ noThreadRefCount' = noThreadRefCount - 1
            /\ UNCHANGED disabledInterruptsRefCount
       ELSE /\ disabledInterruptsRefCount' =
                   [disabledInterruptsRefCount EXCEPT ![currentThread] = @ - 1]
            /\ UNCHANGED noThreadRefCount
    /\ UNCHANGED interruptsEnabled
    /\ UNCHANGED <<kvars, swept, fvars, pvars, wvars, qvars, tvars, olvars, mvars, xvars>>

(***************************************************************************)
(* The producer and the consumer of the end-to-end scenario: two threads   *)
(* share a queue of integers under PCMutex and wait on PCCond.             *)
(***************************************************************************)
PCMutex == <<"M">>
PCCond == <<"C">>

\* Number of integers the producer pushes.
NumItems == 2

\* for i in 1..=NumItems { g = mutex.lock(); push(i); cond.signalCond();
\* drop(g) }.  x is i.
producer(t) ==
    /\ InFn(t, "producer")
    /\ UNCHANGED popped
    /\ CASE Top(t).pc = "loop" ->
              /\ IF Top(t).x > NumItems
                 THEN Return(t, Ok)
                 ELSE Call(t, "push", Frame("Mutex_lock", "start", PCMutex, NULL))
              /\ UNCHANGED items
         [] Top(t).pc = "push" ->
              /\ items' = Append(items, Top(t).x)
              /\ Goto(t, "signal")
         [] Top(t).pc = "signal" ->
              /\ Call(t, "unlock", Frame("signalCond", "start", PCCond, NULL))
              /\ UNCHANGED items
         [] Top(t).pc = "unlock" ->
              /\ Call(t, "next", Frame("MutexGuard_drop", "start", PCMutex, NULL))
              /\ UNCHANGED items
         [] Top(t).pc = "next" ->
              /\ GotoX(t, "loop", Top(t).x + 1)
              /\ UNCHANGED items

\* for _ in 1..=NumItems { g = mutex.lock(); while queue is empty
\* { g = cond.waitForCond(g) }; pop(); drop(g) }.  x counts the pops.
consumer(t) ==
    /\ InFn(t, "consumer")
    /\ CASE Top(t).pc = "loop" ->
              /\ IF Top(t).x >= NumItems
                 THEN Return(t, Ok)
                 ELSE Call(t, "test", Frame("Mutex_lock", "start", PCMutex, NULL))
              /\ UNCHANGED <<items, popped>>
         [] Top(t).pc = "test" ->
              IF items = <<>>
              THEN /\ Call(t, "test", Frame("waitForCond", "start", PCCond \o PCMutex, NULL))
                   /\ UNCHANGED <<items, popped>>
              ELSE /\ popped' = Append(popped, Head(items))
                   /\ items' = Tail(items)
                   /\ GotoX(t, "unlock", Top(t).x + 1)
         [] Top(t).pc = "unlock" ->
              /\ Call(t, "loop", Frame("MutexGuard_drop", "start", PCMutex, NULL))
              /\ UNCHANGED <<items, popped>>

\* One step of the function on top of thread t's stack.
Run(t) ==
    /\ ~Idle(t)
    /\ UNCHANGED qvars
    /\ CASE Top(t).fn = "tryLock" -> tryLock(t) /\ UNCHANGED <<mvars, xvars>> /\ UNCHANGED nvars
         [] Top(t).fn = "waitForLock" -> waitForLockWith(t) /\ UNCHANGED <<mvars, xvars>> /\ UNCHANGED nvars
         [] Top(t).fn = "waitForLockWith" -> waitForLockWith(t) /\ UNCHANGED <<mvars, xvars>> /\ UNCHANGED nvars
         [] Top(t).fn = "yieldThread" -> yieldThread(t) /\ UNCHANGED <<mvars, xvars>> /\ UNCHANGED nvars
         [] Top(t).fn = "transferLockTo" -> transferLockTo(t) /\ UNCHANGED <<mvars, xvars>> /\ UNCHANGED nvars
         [] Top(t).fn = "OwnedLockGuard_drop" -> OwnedLockGuard_drop(t) /\ UNCHANGED <<mvars, xvars>> /\ UNCHANGED nvars
         [] Top(t).fn = "Mutex_lock" -> Mutex_lock(t) /\ UNCHANGED xvars /\ UNCHANGED nvars
         [] Top(t).fn = "Mutex_tryLock" -> Mutex_tryLock(t) /\ UNCHANGED xvars /\ UNCHANGED nvars
         [] Top(t).fn = "MutexGuard_drop" -> MutexGuard_drop(t) /\ UNCHANGED xvars /\ UNCHANGED nvars
         [] Top(t).fn = "getNextThread" ->
                getNextThread(t) /\ UNCHANGED <<mvars, cvars, rwvars, kvars, ivars, fvars, pvars, wvars>>
         [] Top(t).fn = "scheduleThread" -> scheduleThread(t) /\ UNCHANGED <<mvars, cvars, rwvars>> /\ UNCHANGED nvars
         [] Top(t).fn = "descheduleThread" -> descheduleThread(t) /\ UNCHANGED <<mvars, cvars, rwvars>> /\ UNCHANGED nvars
         [] Top(t).fn = "blockUntil" -> blockUntil(t) /\ UNCHANGED <<mvars, cvars, rwvars>> /\ UNCHANGED nvars
         [] Top(t).fn = "yieldThreadWithoutInterrupts" ->
                yieldThreadWithoutInterrupts(t) /\ UNCHANGED <<op, olvars, mvars, xvars, nvars>>
         [] Top(t).fn = "yieldThreadTo" ->
                yieldThreadTo(t) /\ UNCHANGED <<op, olvars, mvars, xvars, nvars>>
         [] Top(t).fn = "producer" ->
                producer(t) /\ UNCHANGED <<op, olvars, mvars, xvars, kvars, swept, ivars, fvars, wvars>>
         [] Top(t).fn = "consumer" ->
                consumer(t) /\ UNCHANGED <<op, olvars, mvars, xvars, kvars, swept, ivars, fvars, wvars>>
         [] Top(t).fn = "initFrameAllocator" ->
                initFrameAllocator(t) /\ UNCHANGED <<op, olvars, mvars, xvars, kvars, swept, ivars, fpre, pvars, gvars, vmvars, rvars>>
         [] Top(t).fn = "reserveFrames" ->
                reserveFrames(t) /\ UNCHANGED <<op, olvars, mvars, xvars, kvars, swept, ivars, fpre, pvars, gvars, vmvars, rvars>>
         [] Top(t).fn = "unreserveFrames" ->
                unreserveFrames(t) /\ UNCHANGED <<op, olvars, mvars, xvars, kvars, swept, ivars, fpre, pvars, gvars, vmvars, rvars>>
         [] Top(t).fn = "fulfillReservedFrame" ->
                fulfillReservedFrame(t) /\ UNCHANGED <<op, olvars, mvars, xvars, kvars, swept, ivars, fpre, pvars, gvars, vmvars, rvars>>
         [] Top(t).fn = "allocFrame" ->
                allocFrame(t) /\ UNCHANGED <<op, olvars, mvars, xvars, kvars, swept, ivars, fpre, pvars, gvars, vmvars, rvars>>
         [] Top(t).fn = "freeFrame" ->
                freeFrame(t) /\ UNCHANGED <<op, olvars, mvars, xvars, kvars, swept, ivars, fpre, pvars, gvars, vmvars, rvars>>
         [] Top(t).fn = "waitForCond" -> waitForCond(t) /\ UNCHANGED <<mvars, svars, rwvars>> /\ UNCHANGED nvars
         [] Top(t).fn = "signalAndRemoveQueueNode" -> signalAndRemoveQueueNode(t) /\ UNCHANGED <<mvars, svars, rwvars>> /\ UNCHANGED nvars
         [] Top(t).fn = "signalCond" -> signalCond(t) /\ UNCHANGED <<mvars, svars, rwvars>> /\ UNCHANGED nvars
         [] Top(t).fn = "broadcastCond" -> broadcastCond(t) /\ UNCHANGED <<mvars, svars, rwvars>> /\ UNCHANGED nvars
         [] Top(t).fn = "lockRead" -> lockRead(t) /\ UNCHANGED <<mvars, cvars, svars>> /\ UNCHANGED nvars
         [] Top(t).fn = "lockWrite" -> lockWrite(t) /\ UNCHANGED <<mvars, cvars, svars>> /\ UNCHANGED nvars
         [] Top(t).fn = "ReadGuard_drop" -> ReadGuard_drop(t) /\ UNCHANGED <<mvars, cvars, svars>> /\ UNCHANGED nvars
         [] Top(t).fn = "WriteGuard_drop" -> WriteGuard_drop(t) /\ UNCHANGED <<mvars, cvars, svars>> /\ UNCHANGED nvars
         [] Top(t).fn = "downgradeRWLock" -> downgradeRWLock(t) /\ UNCHANGED <<mvars, cvars, svars>> /\ UNCHANGED nvars

(***************************************************************************)
(* SpecOL: the threads use one OwnedLock in any way its interface allows.  *)
(***************************************************************************)
TheLock == <<"L", "lock">>

OLStart(t, name, fr) ==
    /\ Idle(t)
    /\ stack' = [stack EXCEPT ![t] = <<fr>>]
    /\ op' = [op EXCEPT ![t] = name]
    /\ ret' = [ret EXCEPT ![t] = NoRet]
    /\ UNCHANGED <<qvars, nvars, olvars, mvars, xvars>>

OLCallTryLock(t) ==
    OLStart(t, <<"tryLock", IF handed[TheLock] = t THEN "owner"
                            ELSE IF handed[TheLock] # NULL THEN "other"
                            ELSE "none">>,
            Frame("tryLock", "swap", TheLock, NULL))

OLCallDrop(t) ==
    /\ t \in guards[TheLock]
    /\ OLStart(t, <<"drop">>, Frame("OwnedLockGuard_drop", "owner", TheLock, NULL))

OLCallTransfer(t) ==
    /\ t \in guards[TheLock]
    /\ \E u \in Threads \ {t} :
          OLStart(t, <<"transfer", u>>, Frame("transferLockTo", "store", TheLock, u))

OLNext ==
    \E t \in Threads :
        \/ OLCallTryLock(t)
        \/ OLCallDrop(t)
        \/ OLCallTransfer(t)
        \/ Run(t)

SpecOL == AllInit /\ [][OLNext]_vars

(***************************************************************************)
(* SpecMutex: the threads call lock() and tryLock() on one Mutex and drop  *)
(* the guards they get, in any interleaving.                               *)
(***************************************************************************)
TheMutex == <<"M">>

MStart(t, fr) ==
    /\ Idle(t)
    /\ stack' = [stack EXCEPT ![t] = <<fr>>]
    /\ ret' = [ret EXCEPT ![t] = NoRet]
    /\ UNCHANGED <<qvars, nvars, op, olvars, mvars, xvars>>

MCallLock(t) ==
    /\ t \notin mguards[TheMutex]
    /\ MStart(t, Frame("Mutex_lock", "start", TheMutex, NULL))

MCallTryLock(t) ==
    /\ Idle(t)
    /\ MStart(t, Frame("Mutex_tryLock", "start", TheMutex, NULL))

MCallDrop(t) ==
    /\ t \in mguards[TheMutex]
    /\ MStart(t, Frame("MutexGuard_drop", "start", TheMutex, NULL))

MNext ==
    \E t \in Threads :
        \/ MCallLock(t)
        \/ MCallTryLock(t)
        \/ MCallDrop(t)
        \/ Run(t)

SpecMutex == AllInit /\ [][MNext]_vars

\* Every thread that can take a step of the function it is in eventually
\* takes one: the scheduler's round robin.
SpecMutexFair == SpecMutex /\ \A t \in Threads : WF_vars(Run(t))

\* Thread t is inside a call of f.
Inside(t, f) == \E i \in 1..Len(stack[t]) : stack[t][i].fn = f

\* C1: at most one thread at a time holds the MutexGuard of a mutex.
MutexMutualExclusion ==
    \A m \in Mutexes : Cardinality(mguards[m]) <= 1

\* A thread holds the guard while another one is inside lock().
HeldWhileContended ==
    \E t, u \in Threads :
        /\ t # u
        /\ t \in mguards[TheMutex]
        /\ Inside(u, "Mutex_lock")

\* Thread t has a node on the waitlist that lock() tail-inserted.
Registered(t) ==
    \E i \in 1..Len(regOrder[TheMutex]) : regOrder[TheMutex][i] = t

OnWaitList(t) == t \in SeqRange(iter(wq[TheMutex]))

TheCond == <<"C">>

CStart(t, fr) ==
    /\ Idle(t)
    /\ stack' = [stack EXCEPT ![t] = <<fr>>]
    /\ ret' = [ret EXCEPT ![t] = NoRet]
    /\ UNCHANGED <<qvars, nvars, op, olvars, mvars, xvars>>

CCallLock(t) ==
    /\ t \notin mguards[TheMutex]
    /\ CStart(t, Frame("Mutex_lock", "start", TheMutex, NULL))

CCallUnlock(t) ==
    /\ t \in mguards[TheMutex]
    /\ CStart(t, Frame("MutexGuard_drop", "start", TheMutex, NULL))

CCallWait(t) ==
    /\ t \in mguards[TheMutex]
    /\ CStart(t, Frame("waitForCond", "start", TheCond \o TheMutex, NULL))

CCallSignal(t) ==
    /\ Idle(t)
    /\ CStart(t, Frame("signalCond", "start", TheCond, NULL))

CCallBroadcast(t) ==
    /\ Idle(t)
    /\ CStart(t, Frame("broadcastCond", "start", TheCond, NULL))

CNext ==
    \E t \in Threads :
        \/ CCallLock(t)
        \/ CCallUnlock(t)
        \/ CCallWait(t)
        \/ CCallSignal(t)
        \/ CCallBroadcast(t)
        \/ Run(t)

SpecCond == AllInit /\ [][CNext]_vars

SpecCondFair == SpecCond /\ \A t \in Threads : WF_vars(Run(t))

\* C3: when a signalCond or broadcastCond begins with waiter w's node on the
\* queue (the only one for signalCond: the oldest), the call completes and w
\* returns from waitForCond.
CondSignalNotLost ==
    \A s, w \in Threads :
        /\ (w \in sigFor[s]) ~> (w \notin sigFor[s])
        /\ (w \in sigFor[s]) ~> ~Inside(w, "waitForCond")

\* C16: blockUntil calls descheduleThread only when it has just read the
\* flag as false, and when a signalCond and the waitForCond of the waiter it
\* found on the queue are under way, in either order, both calls complete.
SignalRace ==
    /\ [][\A t \in Threads :
            (/\ ~Idle(t) /\ Top(t).fn = "blockUntil"
             /\ Len(stack'[t]) = Len(stack[t]) + 1
             /\ Head(stack'[t]).fn = "descheduleThread")
                => ~doNotDeschedule[t]]_vars
    /\ \A s, w \in Threads :
          (w \in sigFor[s] /\ Inside(w, "waitForCond")) ~>
              (~Inside(w, "waitForCond") /\ ~Inside(s, "signalCond"))

\* C32: signalCond and broadcastCond return, on an empty queue as well;
\* each node they take off the queue is the oldest one that is on it, and
\* the others stay in their order; signalCond takes one node off, and
\* broadcastCond has emptied the queue when it is through with its loop.
CondWakeOrder ==
    /\ \A s \in Threads :
          /\ Inside(s, "signalCond") ~> ~Inside(s, "signalCond")
          /\ Inside(s, "broadcastCond") ~> ~Inside(s, "broadcastCond")
    /\ [][\A s \in Threads :
            At(s, "signalAndRemoveQueueNode", "remove") /\ cq' # cq =>
                /\ iter(cq[TheCond]) # <<>>
                /\ Top(s).x = Head(iter(cq[TheCond]))
                /\ iter(cq'[TheCond]) = Tail(iter(cq[TheCond]))]_vars
    /\ [](\A s \in Threads :
              At(s, "broadcastCond", "drop") => iter(cq[TheCond]) = <<>>)

\* the node of thread w is on the queue of the cond
OnCondQueue(w) == w \in SeqRange(iter(cq[TheCond]))

RWOps(t) ==
    IF t \in wguards THEN {"WriteGuard_drop", "downgradeRWLock"}
    ELSE IF t \in rguards THEN {"ReadGuard_drop"}
    ELSE {"lockRead", "lockWrite"}

RWCall(t) ==
    /\ Idle(t)
    /\ \E f \in RWOps(t) :
           stack' = [stack EXCEPT ![t] = <<Frame(f, "start", NoObj, NULL)>>]
    /\ ret' = [ret EXCEPT ![t] = NoRet]
    /\ UNCHANGED <<qvars, nvars, op, olvars, mvars, xvars>>

RWNext ==
    \E t \in Threads :
        \/ RWCall(t)
        \/ Run(t)

SpecRW == AllInit /\ [][RWNext]_vars

\* Every thread that is in a call goes on with it.
SpecRWFair == SpecRW /\ \A t \in Threads : WF_vars(Run(t))

\* C4: a reader whose lockRead began while a writer was on the writer
\* waitlist does not hold a returned ReadGuard before that writer has
\* returned from lockWrite.
WriterPreference ==
    \A r \in Threads :
        (r \in rguards /\ ~Inside(r, "lockRead") /\ ~Inside(r, "downgradeRWLock"))
            => ahead[r] = {}

\* A writer has joined the waitlist and not acquired yet, and a reader that
\* called lockRead after that is inside lockRead.
ReaderBehindWriter ==
    \E w, r \in Threads :
        /\ w \in waiting /\ w \notin wguards
        /\ w \in ahead[r]
        /\ Inside(r, "lockRead")

\* C5: a live WriteGuard is the only live guard, and mode Write means no
\* reader is counted and one writer holds the data.
RWExclusion ==
    /\ Cardinality(wguards) <= 1
    /\ wguards # {} => rguards = {}
    /\ mode = "Write" => readerCount = 0 /\ Cardinality(wguards) = 1

\* A WriteGuard is live while another thread is inside lockRead or lockWrite.
WriteGuardContended ==
    \E w, u \in Threads :
        /\ w # u
        /\ w \in wguards
        /\ Inside(u, "lockRead") \/ Inside(u, "lockWrite")

\* C35: a lockWrite does not stay blocked for ever while no reader is
\* counted and no other writer holds the lock, and a lockRead does not stay
\* blocked for ever while no writer holds the lock or waits for it: the
\* call returns, or one of these holds again.
RWProgress ==
    \A t \in Threads :
        /\ Inside(t, "lockWrite") ~>
               (Idle(t) \/ readerCount > 0 \/ wguards \ {t} # {})
        /\ Inside(t, "lockRead") ~>
               (Idle(t) \/ wguards # {} \/ waiting # {})

InAcquireWindow(l) ==
    \E t \in Threads : At(t, "tryLock", "store") /\ Top(t).obj = l

\* A thread has cleared the owner of l and not yet released the flag.
InReleaseWindow(l) ==
    \E t \in Threads : At(t, "OwnedLockGuard_drop", "unlock") /\ Top(t).obj = l

AcquireReleasePost ==
    [][\A t \in Threads :
          /\ (At(t, "tryLock", "set") /\ stack'[t] = Tail(stack[t]))
                => owner'[Top(t).obj] = t
          /\ (At(t, "OwnedLockGuard_drop", "unlock") /\ stack'[t] = Tail(stack[t]))
                => (status'[Top(t).obj] = UNLOCKED /\ owner'[Top(t).obj] = NULL)
      ]_vars

\* A thread got a guard from tryLock and has dropped it.
GuardDropped ==
    \E t \in Threads :
        /\ Idle(t)
        /\ op[t] = <<"drop">>
        /\ guardCreated[TheLock]
        /\ status[TheLock] = UNLOCKED
        /\ owner[TheLock] = NULL

\* C8: after transferLockTo(T) the owner is T and the lock is still LOCKED,
\* T's next tryLock returns a guard and any other thread's tryLock fails.
TransferHandsOver ==
    /\ \A l \in Locks :
          handed[l] # NULL => (owner[l] = handed[l] /\ status[l] = LOCKED)
    /\ \A t \in Threads :
          /\ (Idle(t) /\ op[t] = <<"tryLock", "owner">>) => ret[t].ok
          /\ (Idle(t) /\ op[t] = <<"tryLock", "other">>) => ~ret[t].ok

\* C29: a tryLock that finds the lock released, so that the owner it reads
\* back is its caller while no thread has a guard, returns a guard, however
\* many guards were created and dropped before.
ReacquireAfterRelease ==
    [][\A t \in Threads :
          (/\ At(t, "tryLock", "check")
           /\ Top(t).x = t
           /\ guards[Top(t).obj] = {}
           /\ handed[Top(t).obj] = NULL
           /\ stack'[t] # stack[t])
              => (Len(stack'[t]) = Len(stack[t]) /\ Head(stack'[t]).pc = "set")
      ]_vars

(***************************************************************************)
(* SpecQ: one head, one link slot, any sequence of the five operations.    *)
(***************************************************************************)


QInsertFront ==
    /\ \E e \in Elems : queue' = insert_front(queue, e)
    /\ UNCHANGED <<order, qcall, nvars, tvars, olvars, mvars, xvars>>

QInsertTail ==
    /\ \E e \in Elems : queue' = insert_tail(queue, e)
    /\ UNCHANGED <<order, qcall, nvars, tvars, olvars, mvars, xvars>>

QInsertAfter ==
    /\ \E a, e \in Elems : queue' = insert_after(queue, a, e)
    /\ UNCHANGED <<order, qcall, nvars, tvars, olvars, mvars, xvars>>

QInsertBefore ==
    /\ \E a, e \in Elems : queue' = insert_before(queue, a, e)
    /\ UNCHANGED <<order, qcall, nvars, tvars, olvars, mvars, xvars>>

QRemove ==
    /\ \E e \in Elems : queue' = remove(queue, e)
    /\ UNCHANGED <<order, qcall, nvars, tvars, olvars, mvars, xvars>>

QNext == QInsertFront \/ QInsertTail \/ QInsertAfter \/ QInsertBefore \/ QRemove

SpecQ == AllInit /\ [][QNext]_vars

\* C9: an element is reachable from the front through next pointers
\* exactly when its inQueue flag is set.
QueueMembership ==
    \A e \in Elems : (e \in SeqRange(iter(queue))) <=> queue.inQueue[e]

\* C10: insert_tail of an element that is not in the queue followed by
\* remove of it leaves front, tail and the iterated sequence as they were.
TailRoundTrip ==
    \A e \in Elems :
        ~queue.inQueue[e] =>
            LET q2 == remove(insert_tail(queue, e), e)
            IN  /\ q2.queueFront = queue.queueFront
                /\ q2.queueBack = queue.queueBack
                /\ iter(q2) = iter(queue)

(***************************************************************************)
(* SpecQTail: the queue is filled by insert_tail only, as the waitlists    *)
(* are, and emptied by remove.                                             *)
(***************************************************************************)
QTInsertTail ==
    /\ \E e \in Elems :
          /\ queue' = insert_tail(queue, e)
          /\ order' = IF queue.inQueue[e] THEN order ELSE Append(order, e)
    /\ UNCHANGED <<qcall, nvars, tvars, olvars, mvars, xvars>>

QTRemove ==
    /\ \E e \in Elems :
          /\ queue' = remove(queue, e)
          /\ order' = IF queue.inQueue[e] THEN SeqWithout(order, e) ELSE order
    /\ UNCHANGED <<qcall, nvars, tvars, olvars, mvars, xvars>>

QTNext == QTInsertTail \/ QTRemove

SpecQTail == AllInit /\ [][QTNext]_vars

\* C11: after insert_tail calls interleaved with removes, iter() visits
\* exactly the elements now in the queue, each once, in the order in which
\* they were tail-inserted.
IterationOrder == iter(queue) = order

(***************************************************************************)
(* SpecQCall: MaxCalls calls of the five operations in any order, each     *)
(* recorded with the inQueue flag its element had.                         *)
(***************************************************************************)
\* Number of calls made on the queue.
MaxCalls == 4

QCInsertFront ==
    /\ qcall[5] < MaxCalls
    /\ \E e \in Elems :
          /\ queue' = insert_front(queue, e)
          /\ qcall' = <<"insert_front", NULL, e, queue.inQueue[e], qcall[5] + 1>>
    /\ UNCHANGED <<order, nvars, tvars, olvars, mvars, xvars>>

QCInsertTail ==
    /\ qcall[5] < MaxCalls
    /\ \E e \in Elems :
          /\ queue' = insert_tail(queue, e)
          /\ qcall' = <<"insert_tail", NULL, e, queue.inQueue[e], qcall[5] + 1>>
    /\ UNCHANGED <<order, nvars, tvars, olvars, mvars, xvars>>

QCInsertAfter ==
    /\ qcall[5] < MaxCalls
    /\ \E a, e \in Elems :
          /\ queue' = insert_after(queue, a, e)
          /\ qcall' = <<"insert_after", a, e, queue.inQueue[e], qcall[5] + 1>>
    /\ UNCHANGED <<order, nvars, tvars, olvars, mvars, xvars>>

QCInsertBefore ==
    /\ qcall[5] < MaxCalls
    /\ \E a, e \in Elems :
          /\ queue' = insert_before(queue, a, e)
          /\ qcall' = <<"insert_before", a, e, queue.inQueue[e], qcall[5] + 1>>
    /\ UNCHANGED <<order, nvars, tvars, olvars, mvars, xvars>>

QCRemove ==
    /\ qcall[5] < MaxCalls
    /\ \E e \in Elems :
          /\ queue' = remove(queue, e)
          /\ qcall' = <<"remove", NULL, e, queue.inQueue[e], qcall[5] + 1>>
    /\ UNCHANGED <<order, nvars, tvars, olvars, mvars, xvars>>

QCNext == QCInsertFront \/ QCInsertTail \/ QCInsertAfter \/ QCInsertBefore \/ QCRemove

SpecQCall == AllInit /\ [][QCNext]_vars

Inserts == {"insert_front", "insert_tail", "insert_after", "insert_before"}

\* C12: an insert of an element whose inQueue flag is set, and a remove of
\* an element whose flag is clear, change neither the head nor any link.
QueueIdempotence ==
    [][(\/ qcall'[1] \in Inserts /\ qcall'[4]
        \/ qcall'[1] = "remove" /\ ~qcall'[4]) => queue' = queue]_vars

\* An insert was called on an element of a queue that already held it.
InsertedAgain ==
    /\ qcall[1] \in Inserts
    /\ qcall[4]
    /\ queue.queueFront # NULL

(***************************************************************************)
(* SpecSched: the kernel starts a first thread, and the current thread     *)
(* calls the scheduler, one call after the other as with interrupts        *)
(* disabled.                                                               *)
(***************************************************************************)
SStart(t, f, x, fr) ==
    /\ currentThread = t
    /\ Idle(t)
    /\ stack' = [stack EXCEPT ![t] = <<fr>>]
    /\ ret' = [ret EXCEPT ![t] = NoRet]
    /\ pre' = [fn |-> f, x |-> x, schedNext |-> schedNext, runq |-> runq,
               scheduled |-> scheduled, currentThread |-> currentThread,
               \* the thread that the call before has scheduled
               after |-> IF pre.fn = "scheduleThread" /\ pre.currentThread = t
                            /\ ret[t].ok
                         THEN pre.x ELSE NULL]
    /\ swept' = IF f = "getNextThread" THEN swept ELSE <<>>
    /\ UNCHANGED <<currentThread, ivars, fvars, pvars, wvars, qvars, op, olvars, mvars, xvars>>

SCallSchedule(t) ==
    /\ Idle(t)
    /\ \E x \in Threads :
        SStart(t, "scheduleThread", x, Frame("scheduleThread", "start", NoObj, x))

SCallDeschedule(t) ==
    /\ Idle(t)
    /\ \E x \in Threads :
        SStart(t, "descheduleThread", x, Frame("descheduleThread", "swap", NoObj, x))

SCallGetNext(t) ==
    /\ Len(swept) <= NumThreads
    /\ SStart(t, "getNextThread", NULL, Frame("getNextThread", "start", NoObj, NULL))

\* yieldThread(None) and yieldThread(Some(x))
SCallYield(t) ==
    /\ Idle(t)
    /\ \E x \in Threads \cup {NULL} :
        SStart(t, "yieldThread", x,
               Frame("yieldThreadWithoutInterrupts", "start", NoObj, x))

SCallBlockUntil(t) ==
    /\ Idle(t)
    /\ SStart(t, "blockUntil", NULL, Frame("blockUntil", "load", NoObj, NULL))

SNext ==
    \E t \in Threads :
        \/ continueThread(t)
        \/ SCallSchedule(t)
        \/ SCallDeschedule(t)
        \/ SCallGetNext(t)
        \/ SCallYield(t)
        \/ SCallBlockUntil(t)
        \/ Run(t)

SpecSched == AllInit /\ [][SNext]_vars

SpecSchedFair == SpecSched /\ \A t \in Threads : WF_vars(Run(t))

\* Thread u is linked in the run queue.
Linked(u) == u \in SeqRange(iter(runq))

\* The current thread has returned from the call recorded in pre.
Returned(t) == currentThread = t /\ Idle(t) /\ pre.fn # "none"

\* The current thread is in the call recorded in pre.
Calling(t) == currentThread = t /\ ~Idle(t)

\* Nothing the scheduler keeps differs from what it was when the call was
\* made.
ScheduleAsBefore ==
    /\ runq = pre.runq
    /\ schedNext = pre.schedNext
    /\ scheduled = pre.scheduled
    /\ currentThread = pre.currentThread

\* C13: whatever calls of scheduleThread, descheduleThread, getNextThread,
\* blockUntil and yieldThread were made, once they are over a thread is
\* linked in the run queue if and only if its scheduled flag is true: the
\* equivalence holds again and again, however long the kernel runs.
ScheduleMembership ==
    []<>(\A u \in Threads : Linked(u) <=> scheduled[u])

\* C14: every getNextThread call returns; with n > 0 threads scheduled the
\* last n of the getNextThread calls made in a row returned every one of
\* them, and a call on an empty run queue returned None.
RoundRobinSweep ==
    /\ \A t \in Threads :
          (Calling(t) /\ pre.fn = "getNextThread") ~> Returned(t)
    /\ [](LET S == {u \in Threads : scheduled[u]}
              n == Cardinality(S)
          IN  (n > 0 /\ Len(swept) >= n) =>
                  {swept[i] : i \in (Len(swept) - n + 1)..Len(swept)} = S)
    /\ [](\A t \in Threads :
              (Returned(t) /\ pre.fn = "getNextThread"
                           /\ pre.runq.queueFront = NULL) => ~ret[t].ok)

\* C30: the getNextThread call that follows a scheduleThread(T) which
\* succeeded returns, and it returns T, whether the run queue was empty
\* before or not.
NewcomerRunsNext ==
    /\ \A t \in Threads :
          (Calling(t) /\ pre.fn = "getNextThread" /\ pre.after # NULL) ~> Returned(t)
    /\ [](\A t \in Threads :
              (Returned(t) /\ pre.fn = "getNextThread" /\ pre.after # NULL) =>
                  ret[t] = Some(pre.after))

\* C31: every descheduleThread call returns; between the calls the cursor
\* is None exactly when the run queue is empty and refers to a linked
\* thread otherwise; getNextThread returns no thread that is descheduled;
\* and a descheduleThread of the thread the cursor is on leaves the cursor
\* on another thread, or on None when the run queue is empty.
CursorInvariant ==
    /\ \A t \in Threads :
          (Calling(t) /\ pre.fn = "descheduleThread") ~> Returned(t)
    /\ []((\A t \in Threads : Idle(t)) =>
              /\ schedNext = NULL <=> runq.queueFront = NULL
              /\ schedNext # NULL => Linked(schedNext))
    /\ [](\A t \in Threads :
              (Returned(t) /\ pre.fn = "getNextThread" /\ ret[t].ok) =>
                  scheduled[ret[t].owner])
    /\ [](\A t \in Threads :
              (/\ Returned(t) /\ pre.fn = "descheduleThread"
               /\ pre.scheduled[pre.x] /\ pre.schedNext = pre.x) =>
                  /\ schedNext # pre.x
                  /\ schedNext = NULL <=> runq.queueFront = NULL)

\* The call recorded in pre was not applicable when it was made.
NotApplicable ==
    \/ pre.fn = "scheduleThread" /\ pre.scheduled[pre.x]
    \/ pre.fn = "descheduleThread" /\ ~pre.scheduled[pre.x]
    \/ pre.fn = "yieldThread" /\ pre.x # NULL /\ ~pre.scheduled[pre.x]

\* C17: scheduleThread of a scheduled thread, descheduleThread of a thread
\* that is not scheduled and yieldThread to one that is not scheduled
\* return Err and leave the run queue, the cursor, the flags and the current
\* thread as they were.
OperationNotApplicable ==
    /\ \A t \in Threads : (Calling(t) /\ NotApplicable) ~> Returned(t)
    /\ [](\A t \in Threads :
              (Returned(t) /\ NotApplicable) =>
                  (~ret[t].ok /\ ScheduleAsBefore))

\* The call recorded in pre is yieldThread(None) by thread t, the only
\* scheduled thread.
YieldsAlone(t) ==
    /\ pre.fn = "yieldThread"
    /\ pre.x = NULL
    /\ pre.currentThread = t
    /\ \A u \in Threads : pre.scheduled[u] <=> u = t

\* C18: yieldThread(None) by the only scheduled thread returns Ok, with the
\* thread still current and scheduled and the run queue and the cursor as
\* before the call.
SelfYield ==
    /\ \A t \in Threads : (Calling(t) /\ YieldsAlone(t)) ~> Returned(t)
    /\ [](\A t \in Threads :
              (Returned(t) /\ YieldsAlone(t)) =>
                  (ret[t].ok /\ ScheduleAsBefore))

(***************************************************************************)
(* SpecInt: guards are created and dropped, each under the count it was    *)
(* created under, before a thread is current and on the threads the kernel *)
(* switches between.  The flag of the processor starts either way.         *)
(***************************************************************************)

\* continueThread, as a context switch calls it.
ISwitch(t) ==
    /\ currentThread # t
    /\ currentThread' = t
    /\ UNCHANGED <<pre, swept, ivars, fvars, pvars, wvars, qvars, tvars, olvars, mvars, xvars>>

INext ==
    \/ disableInterrupts
    \/ DisabledInterruptsGuard_drop
    \/ \E t \in Threads : ISwitch(t)

IntInit ==
    /\ ObjInit
    /\ interruptsEnabled \in BOOLEAN

SpecInt == IntInit /\ [][INext]_vars

\* C19: interrupts are disabled whenever the guard count that applies is
\* greater than zero, and only the drop that takes the count from 1 to 0
\* enables them again.
InterruptNesting ==
    [][/\ refCount' > 0 => ~interruptsEnabled'
       /\ (~interruptsEnabled /\ interruptsEnabled') =>
              (refCount = 1 /\ refCount' = 0 /\ currentThread' = currentThread)]_vars

(***************************************************************************)
(* SpecFrames: the threads set up the allocator and reserve and unreserve  *)
(* frames, one call after the other.                                       *)
(***************************************************************************)
FStart(t, f, n, fr) ==
    /\ \A u \in Threads : Idle(u)
    /\ stack' = [stack EXCEPT ![t] = <<fr>>]
    /\ ret' = [ret EXCEPT ![t] = NoRet]
    /\ fpre' = [fn |-> f, t |-> t, count |-> n, bytesFree |-> bytesFree]
    /\ UNCHANGED <<bytesFree, kvars, swept, ivars, pvars, wvars, qvars, op, olvars, mvars, xvars>>

FCallInit(t) ==
    /\ Idle(t)
    /\ fpre.fn = "none"
    /\ \E n \in 1..NumFrames :
          FStart(t, "initFrameAllocator", n,
                 Frame("initFrameAllocator", "start", NoObj, n))

FCallReserve(t) ==
    /\ Idle(t)
    /\ \E n \in 0..(NumFrames + 1) :
          FStart(t, "reserveFrames", n, Frame("reserveFrames", "start", NoObj, n))

FCallUnreserve(t) ==
    /\ Idle(t)
    /\ bytesFree <= NumFrames * PAGE_SIZE
    /\ \E n \in 0..(NumFrames + 1) :
          FStart(t, "unreserveFrames", n, Frame("unreserveFrames", "start", NoObj, n))

FCallFulfill(t) ==
    /\ Idle(t)
    /\ FStart(t, "fulfillReservedFrame", 0,
              Frame("fulfillReservedFrame", "start", NoObj, NULL))

FCallAlloc(t) ==
    /\ Idle(t)
    /\ FStart(t, "allocFrame", 0, Frame("allocFrame", "start", NoObj, NULL))

\* the frames of the region and the one after it
FrameAddrs == {(FirstFrame + i) * PAGE_SIZE : i \in 0..NumFrames}

FCallFree(t) ==
    /\ Idle(t)
    /\ \E frame \in FrameAddrs :
          FStart(t, "freeFrame", frame, Frame("freeFrame", "start", NoObj, frame))

FNext ==
    \E t \in Threads :
        \/ FCallInit(t)
        \/ FCallReserve(t)
        \/ FCallUnreserve(t)
        \/ FCallFulfill(t)
        \/ FCallAlloc(t)
        \/ FCallFree(t)
        \/ Run(t)

SpecFrames == AllInit /\ [][FNext]_vars

SpecFramesFair == SpecFrames /\ \A t \in Threads : WF_vars(Run(t))

\* C20: reserveFrames(n) returns, with success exactly when bytesFree was
\* at least n * PAGE_SIZE; it then took n * PAGE_SIZE off bytesFree, and
\* left it alone otherwise; unreserveFrames(n) returns and has added
\* n * PAGE_SIZE.
FrameReservation ==
    /\ \A t \in Threads :
          (~Idle(t) /\ fpre.fn \in {"reserveFrames", "unreserveFrames"}) ~> Idle(t)
    /\ [](\A t \in Threads :
              (Idle(t) /\ fpre.t = t /\ fpre.fn = "reserveFrames") =>
                  /\ ret[t].ok <=> fpre.bytesFree >= fpre.count * PAGE_SIZE
                  /\ bytesFree = IF ret[t].ok
                                 THEN fpre.bytesFree - fpre.count * PAGE_SIZE
                                 ELSE fpre.bytesFree)
    /\ [](\A t \in Threads :
              (Idle(t) /\ fpre.t = t /\ fpre.fn = "unreserveFrames") =>
                  bytesFree = fpre.bytesFree + fpre.count * PAGE_SIZE)


\* initFrameAllocator has set the region up
Inited == regionEnd # 0

\* the frames of the region whose entry has the FREE bit
FreeInRegion == {f \in frameFree : regionStart <= f /\ f < regionEnd}

\* C21: once initFrameAllocator has set the allocator up (and is past its
\* marking loop), and whatever calls follow, bytesFree / PAGE_SIZE is the
\* number of frames of the region whose entry has the FREE bit, less the
\* reservations that are outstanding.
FrameAccounting ==
    (/\ Inited
     /\ \A t \in Threads : ~At(t, "initFrameAllocator", "mark")
     /\ reserved >= 0)
        => bytesFree \div PAGE_SIZE = Cardinality(FreeInRegion) - reserved

Role(f) == {t \in Threads : op[t] = <<f>>}

PCStart(t, f) ==
    /\ op[t] = <<"none">>
    /\ Role(f) = {}
    /\ stack' = [stack EXCEPT ![t] = <<Frame(f, "loop", NoObj, IF f = "producer" THEN 1 ELSE 0)>>]
    /\ ret' = [ret EXCEPT ![t] = NoRet]
    /\ op' = [op EXCEPT ![t] = <<f>>]
    /\ UNCHANGED <<qvars, nvars, olvars, mvars, xvars>>

PCStartProducer(t) ==
    /\ Idle(t)
    /\ PCStart(t, "producer")

PCStartConsumer(t) ==
    /\ Idle(t)
    /\ PCStart(t, "consumer")

PCNext ==
    \E t \in Threads :
        \/ PCStartProducer(t)
        \/ PCStartConsumer(t)
        \/ Run(t)

SpecPC == AllInit /\ [][PCNext]_vars

SpecPCFair == SpecPC /\ \A t \in Threads : WF_vars(Run(t))

PCStarted == Role("producer") # {} /\ Role("consumer") # {}

PCDone ==
    /\ \A t \in Role("producer") \cup Role("consumer") : Idle(t)
    /\ popped = [i \in 1..NumItems |-> i]
    /\ wq[PCMutex].queueFront = NULL
    /\ cq[PCCond].queueFront = NULL

\* C15: once the producer and the consumer are started, both terminate, the
\* consumer has popped 1, 2, ..., NumItems in this order, and the waitlist
\* of the mutex and the queue of the cond are empty; what the consumer has
\* popped so far is always 1, 2, ... in order.
ProducerConsumer ==
    /\ PCStarted ~> PCDone
    /\ [](\A i \in 1..Len(popped) : popped[i] = i)

(***************************************************************************)
(* SpecFlags: the flags of one page entry are set and cleared through      *)
(* their masks, as the kernel does with `*entry | MASK` and                *)
(* `*entry & !MASK`, and tested through their bit numbers; pteOp is the    *)
(* last operation and, for a test, its answer.                             *)
(***************************************************************************)
Flags == {"PRESENT", "WRITABLE", "USER", "GLOBAL", "COPY_ON_WRITE", "FREE"}

Mask(f) ==
    CASE f = "PRESENT" -> PAGE_PRESENT
      [] f = "WRITABLE" -> PAGE_WRITABLE
      [] f = "USER" -> PAGE_USER_ACCESS
      [] f = "GLOBAL" -> PAGE_GLOBAL
      [] f = "COPY_ON_WRITE" -> PAGE_COPY_ON_WRITE
      [] f = "FREE" -> PAGE_FREE

Bit(f) ==
    CASE f = "PRESENT" -> PAGE_PRESENT_BIT
      [] f = "WRITABLE" -> PAGE_WRITABLE_BIT
      [] f = "USER" -> PAGE_USER_ACCESS_BIT
      [] f = "GLOBAL" -> PAGE_GLOBAL_BIT
      [] f = "COPY_ON_WRITE" -> PAGE_COPY_ON_WRITE_BIT
      [] f = "FREE" -> PAGE_FREE_BIT

GUnchanged ==
    UNCHANGED <<vmvars, avars, rvars, kvars, swept, ivars, fvars, pvars, qvars, tvars, olvars, mvars, xvars>>

\* *entry = *entry | MASK
PTESet(f) ==
    /\ pte' = BitOr(pte, Mask(f))
    /\ pteOp' = <<"set", f>>
    /\ GUnchanged

\* *entry = *entry & !MASK
PTEClear(f) ==
    /\ pte' = BitClear(pte, Mask(f))
    /\ pteOp' = <<"clear", f>>
    /\ GUnchanged

\* GET_BIT(entry, BIT)
PTETest(f) ==
    /\ pteOp' = <<IF GET_BIT(pte, Bit(f)) THEN "set?" ELSE "clear?", f>>
    /\ UNCHANGED pte
    /\ GUnchanged

GNext == \E f \in Flags : PTESet(f) \/ PTEClear(f) \/ PTETest(f)

SpecFlags == AllInit /\ [][GNext]_vars

\* The bit positions of the flags in the specification of the page entry.
LayoutBit(f) ==
    CASE f = "PRESENT" -> 0
      [] f = "WRITABLE" -> 1
      [] f = "USER" -> 2
      [] f = "GLOBAL" -> 8
      [] f = "COPY_ON_WRITE" -> 9
      [] f = "FREE" -> 10

\* C27: every flag's mask is the single bit at its position in the layout
\* (PRESENT 0, WRITABLE 1, USER 2, GLOBAL 8, COPY_ON_WRITE 9, FREE 10), the
\* bit its test reads, and setting or clearing one flag changes the test of
\* no other flag.
FlagLayout ==
    [][/\ \A f \in Flags : Mask(f) = Pow2(LayoutBit(f)) /\ Bit(f) = LayoutBit(f)
       /\ \A g \in Flags \ {pteOp'[2]} : GET_BIT(pte', Bit(g)) = GET_BIT(pte, Bit(g))]_vars

(***************************************************************************)
(* SpecVM: pages and ranges of the current directory are mapped, looked    *)
(* up, validated and freed.  A call passes the flags it names, or'ed.      *)
(***************************************************************************)
Offsets == {0, 8}
LAddrs ==
    {LogicalAddress_new(ti, pi, off) : ti \in TIdx, pi \in 0..(NumPages - 1), off \in Offsets}
Lens == {1, PAGE_SIZE + 1}

\* a range that stays within the slots of one table
InSlots(addr, len) ==
    /\ get_page_table(addr + len - 1) = get_page_table(addr)
    /\ get_page(addr + len - 1) \in PIdx

FlagNames == {"WRITABLE", "USER"}

RECURSIVE FlagWord(_)
FlagWord(F) ==
    IF F = {} THEN 0
    ELSE LET f == CHOOSE g \in F : TRUE IN BitOr(Mask(f), FlagWord(F \ {f}))

VM == [dir |-> dir, tables |-> tables]

VMUnchanged ==
    UNCHANGED <<gvars, avars, rvars, kvars, swept, ivars, fvars, pvars, qvars, tvars, olvars, mvars, xvars>>

VMDone(f, addr, end, F, r) ==
    /\ dir' = r.vm.dir
    /\ tables' = r.vm.tables
    /\ vmcall' = [fn |-> f, addr |-> addr, end |-> end, flags |-> F]
    /\ vmret' = [ok |-> r.ok, val |-> r.val]
    /\ VMUnchanged

VMGetPage(addr, F, heapOk) ==
    /\ VMDone("getPage", addr, 0, F, getPage(VM, addr, FlagWord(F), heapOk))

VMFreeMappedPage(addr) ==
    /\ VMDone("freeMappedPage", addr, 0, {}, VmRes(freeMappedPage(VM, addr), None))

\* The range lies in one table: a page fails when the table is absent and
\* the heap gives none, so the first page fails and every page after it,
\* and the two readings of the failing arm differ in the error value only.
VMMapMemoryRange(addr, len, F, heapOk) ==
    /\ isPageAligned(addr)
    /\ InSlots(addr, len)
    /\ VMDone("mapMemoryRange", addr, addr + len, F,
              mapMemoryRange(VM, addr, addr + len, FlagWord(F), heapOk, TRUE))

VMFreeMemoryRange(addr, len) ==
    /\ isPageAligned(addr)
    /\ InSlots(addr, len)
    /\ VMDone("freeMemoryRange", addr, addr + len, {},
              VmRes(freeMemoryRange(VM, addr, addr + len), None))

VMIsUserReadable(addr, len) ==
    /\ InSlots(addr, len)
    /\ VMDone("isUserReadableAddr", addr, addr + len, {},
              VmRes(VM, [ok |-> isUserReadableAddr(VM, addr, len), val |-> 0]))

VMIsUserWritable(addr, len) ==
    /\ InSlots(addr, len)
    /\ VMDone("isUserWritableAddr", addr, addr + len, {},
              VmRes(VM, [ok |-> isUserWritableAddr(VM, addr, len), val |-> 0]))

VMNext ==
    \E addr \in LAddrs :
        \/ \E F \in SUBSET FlagNames, heapOk \in BOOLEAN : VMGetPage(addr, F, heapOk)
        \/ VMFreeMappedPage(addr)
        \/ \E len \in Lens, F \in SUBSET FlagNames, heapOk \in BOOLEAN :
              VMMapMemoryRange(addr, len, F, heapOk)
        \/ \E len \in Lens : VMFreeMemoryRange(addr, len)
        \/ \E len \in Lens : VMIsUserReadable(addr, len)
        \/ \E len \in Lens : VMIsUserWritable(addr, len)

SpecVM == AllInit /\ [][VMNext]_vars

\* the entry of addr is present
Present(addr) ==
    LET entry == tryGetPageEntry(VM, addr)
    IN  entry.ok /\ page_is_present(entry.val)

\* C24: after getPage(A, F) has succeeded, tryGetPage(A) returns a page and
\* the physical address of A is the address of that page plus
\* A mod PAGE_SIZE; after freeMappedPage(A) the entry of A is not present.
VMRoundTrip ==
    /\ (vmcall.fn = "getPage" /\ vmret.ok) =>
          LET page == tryGetPage(VM, vmcall.addr)
              phys == getPhysicalAddress(VM, vmcall.addr, FlagWord(vmcall.flags), TRUE)
          IN  /\ page.ok
              /\ phys.ok
              /\ phys.val = page.val + (vmcall.addr % PAGE_SIZE)
    /\ vmcall.fn = "freeMappedPage" => ~Present(vmcall.addr)

\* C25: when isUserWritableAddr is asked about the range that the call
\* before it has mapped with mapMemoryRange and WRITABLE, the answer is yes
\* exactly when the flags of the mapping name USER as well: no with
\* WRITABLE alone, yes with WRITABLE | USER; and after freeMemoryRange no
\* page entry of the range is present.
UserPermission ==
    [][/\ (/\ vmcall.fn = "mapMemoryRange" /\ vmret.ok
           /\ "WRITABLE" \in vmcall.flags
           /\ vmcall'.fn = "isUserWritableAddr"
           /\ vmcall'.addr = vmcall.addr /\ vmcall'.end = vmcall.end)
               => (vmret'.ok <=> "USER" \in vmcall.flags)
       /\ vmcall'.fn = "freeMemoryRange" =>
             \A curr \in SeqRange(foreach_page_in(vmcall'.addr, vmcall'.end)) :
                 ~Present(curr)']_vars

\* C26: isUserReadableAddr(A, len) is true exactly when every page that
\* overlaps [A, A + len) has an entry in the current directory with the
\* PRESENT bit and the USER bit of the layout set.
UserReadableIff ==
    vmcall.fn = "isUserReadableAddr" =>
        (vmret.ok <=>
            \A curr \in SeqRange(foreach_page_in(vmcall.addr, vmcall.end)) :
                LET entry == tryGetPageEntry(VM, curr)
                IN  /\ entry.ok
                    /\ GET_BIT(entry.val, LayoutBit("PRESENT"))
                    /\ GET_BIT(entry.val, LayoutBit("USER")))

(***************************************************************************)
(* SpecRange: the two pages on either side of the boundary between the     *)
(* first table and the second are mapped one by one and as a range, the    *)
(* processor marks the pages it accesses, and isUnmappedAddr is asked      *)
(* about them.                                                             *)
(***************************************************************************)
RAddrs ==
    {LogicalAddress_new(0, NUM_PAGE_ENTRIES - 1, off) : off \in Offsets}
        \cup {LogicalAddress_new(1, 0, off) : off \in Offsets}

\* the pages of [addr, addr + len) are pages of RAddrs
InRange(addr, len) ==
    \A curr \in SeqRange(foreach_page_in(addr, addr + len)) :
        \E a \in RAddrs : PAGE_ALIGN(a) = curr

\* the processor sets bit 5 of the entry of a page that is accessed
VMAccess(addr) ==
    /\ tryGetPageEntry(VM, addr).ok
    /\ page_is_present(tryGetPageEntry(VM, addr).val)
    /\ VMDone("access", addr, 0, {},
              VmRes(SetPageEntry(VM, addr, BitOr(tryGetPageEntry(VM, addr).val, Pow2(5))),
                    None))

VMIsUnmapped(addr, len) ==
    /\ InRange(addr, len)
    /\ VMDone("isUnmappedAddr", addr, addr + len, {},
              VmRes(VM, [ok |-> isUnmappedAddr(VM, addr, len), val |-> 0]))

VMMapAcross(addr, len, heapOk, returns) ==
    /\ InRange(addr, len)
    /\ VMDone("mapMemoryRange", addr, addr + len, {},
              mapMemoryRange(VM, addr, addr + len, 0, heapOk, returns))

RNext ==
    \E addr \in RAddrs :
        \/ \E heapOk \in BOOLEAN : VMGetPage(addr, {}, heapOk)
        \/ VMFreeMappedPage(addr)
        \/ VMAccess(addr)
        \/ \E len \in Lens : VMIsUnmapped(addr, len)
        \/ \E len \in Lens, heapOk \in BOOLEAN, returns \in BOOLEAN :
              VMMapAcross(addr, len, heapOk, returns)

SpecRange == AllInit /\ [][RNext]_vars

\* C37: isUnmappedAddr(addr, len) answers yes exactly when, for every page
\* that overlaps [addr, addr + len), the current directory has no entry
\* (the table of the page is absent) or the accessed bit of the entry is 0.
UnmappedIff ==
    vmcall.fn = "isUnmappedAddr" =>
        (vmret.ok <=>
            \A curr \in SeqRange(foreach_page_in(vmcall.addr, vmcall.end)) :
                LET entry == tryGetPageEntry(VM, curr)
                IN  ~entry.ok \/ ~GET_BIT(entry.val, 5))

\* isUnmappedAddr has answered no about a page whose table is absent
UnmappedAbsentNo ==
    /\ vmcall.fn = "isUnmappedAddr"
    /\ ~vmret.ok
    /\ \A curr \in SeqRange(foreach_page_in(vmcall.addr, vmcall.end)) :
           ~tryGetPageEntry(VM, curr).ok

\* the pages of the range of the call that mapMemoryRange did not leave
\* mapped, as indices into the sequence of the pages
Unmapped(pages) == {i \in 1..Len(pages) : ~Present(pages[i])}

\* C38: when mapMemoryRange fails at some page, it stops there and returns
\* an error value that is not page aligned and names the last address that
\* was mapped (start - 1 when no page was mapped); the pages before the
\* failing page are mapped and no page at or after it is mapped by the call.
MapFailsPartly ==
    [][vmcall'.fn = "mapMemoryRange" =>
          \A pages \in {foreach_page_in(vmcall'.addr, vmcall'.end)} :
          \A before \in {Unmapped(pages)}, after \in {Unmapped(pages)'} :
              after # {} =>
                  \A k \in {i \in after : \A j \in after : i <= j} :
                      /\ ~vmret'.ok
                      /\ ~isPageAligned(vmret'.val)
                      /\ vmret'.val = IF k = 1 THEN vmcall'.addr - 1 ELSE pages[k] - 1
                      /\ \A i \in 1..Len(pages) : i >= k /\ i \in before => i \in after]_vars

\* mapMemoryRange has mapped the first page of two and failed at the second
MapFailedAtSecond ==
    /\ vmcall.fn = "mapMemoryRange"
    /\ Len(foreach_page_in(vmcall.addr, vmcall.end)) = 2
    /\ Unmapped(foreach_page_in(vmcall.addr, vmcall.end)) = {2}

(***************************************************************************)
(* SpecSetFlags: the first pages of the first table are mapped with        *)
(* GLOBAL and COPY_ON_WRITE or without, freed, and setRangeFlags is called *)
(* on them.                                                                *)
(***************************************************************************)
SAddrs == {LogicalAddress_new(0, pi, 0) : pi \in 0..(NumPages - 1)}

SFlagNames == {"GLOBAL", "COPY_ON_WRITE"}

VMSetRangeFlags(addr, len, F) ==
    /\ InSlots(addr, len)
    /\ VMDone("setRangeFlags", addr, addr + len, F,
              VmRes(setRangeFlags(VM, addr, addr + len, FlagWord(F)), None))

SFNext ==
    \E addr \in SAddrs :
        \/ \E F \in SUBSET SFlagNames : VMGetPage(addr, F, TRUE)
        \/ VMFreeMappedPage(addr)
        \/ \E len \in Lens, F \in SUBSET SFlagNames : VMSetRangeFlags(addr, len, F)

SpecSetFlags == AllInit /\ [][SFNext]_vars

\* flag f of the layout is set in entry word e
Has(e, f) == GET_BIT(e, LayoutBit(f))

\* C39: setRangeFlags(start, end, flags) ors flags into every present entry
\* of the range: the entry keeps its frame address, PRESENT and every flag
\* it had, except that an entry with COPY_ON_WRITE ends with COPY_ON_WRITE
\* set, WRITABLE clear and PRESENT set; entries that are not present are
\* left as they are.
SetFlagsKeeps ==
    [][vmcall'.fn = "setRangeFlags" =>
          \A curr \in SeqRange(foreach_page_in(vmcall'.addr, vmcall'.end)) :
          \A old \in {tryGetPageEntry(VM, curr)}, new \in {tryGetPageEntry(VM, curr)'} :
              IF old.ok /\ Has(old.val, "PRESENT")
              THEN /\ new.ok
                   /\ page_address(new.val) = page_address(old.val)
                   /\ Has(new.val, "PRESENT")
                   /\ \A f \in Flags \ {"WRITABLE"} :
                          Has(old.val, f) \/ f \in vmcall'.flags => Has(new.val, f)
                   /\ IF Has(old.val, "COPY_ON_WRITE")
                      THEN ~Has(new.val, "WRITABLE")
                      ELSE Has(old.val, "WRITABLE") => Has(new.val, "WRITABLE")
              ELSE new = old]_vars

(***************************************************************************)
(* SpecRef: the reference counts of the thread blocks.  The threads make   *)
(* and drop handles, take and release one OwnedLock and call the           *)
(* scheduler, one call after the other; a step is a call that returns.     *)
(* A call that waits for an OwnedLock that was taken before does not       *)
(* return (its tryLock fails for ever) and is no step.                     *)
(***************************************************************************)
\* Largest number of handles to one thread block.
MaxHandles == 2

\* How far below zero a refCount is followed.
MaxUnder == 2

\* thread t has made the call named
RefDone(t, name) ==
    /\ op' = [op EXCEPT ![t] = <<name>>]
    /\ UNCHANGED <<qvars, stack, ret, mvars, cvars, rwvars, kvars, swept, ivars, fvars,
                   pvars, gvars, vmvars, avars, handed>>

\* fetch_add(1) and fetch_sub(1) on the refCount of thread block T
fetch_add(rc, T) == [rc EXCEPT ![T] = @ + 1]
fetch_sub(rc, T) == [rc EXCEPT ![T] = @ - 1]

\* a ThreadHandle to T comes into being, and ceases to be
NewHandle(T) ==
    /\ liveHandles[T] < MaxHandles
    /\ liveHandles' = [liveHandles EXCEPT ![T] = @ + 1]
EndHandle(T) ==
    /\ liveHandles[T] > 0
    /\ liveHandles' = [liveHandles EXCEPT ![T] = @ - 1]

\* ThreadBlock::handle of thread block T, called by thread t
RefHandle(t, T) ==
    /\ tcbRefCount' = fetch_add(tcbRefCount, T)
    /\ NewHandle(T)
    /\ UNCHANGED <<status, owner, guardCreated, guards, svars>>
    /\ RefDone(t, "handle")

\* ThreadHandle::clone
RefClone(t, T) ==
    /\ liveHandles[T] > 0
    /\ tcbRefCount' = fetch_add(tcbRefCount, T)
    /\ NewHandle(T)
    /\ UNCHANGED <<status, owner, guardCreated, guards, svars>>
    /\ RefDone(t, "clone")

\* ThreadHandle::drop
RefDrop(t, T) ==
    /\ tcbRefCount[T] > -MaxUnder
    /\ tcbRefCount' = fetch_sub(tcbRefCount, T)
    /\ EndHandle(T)
    /\ UNCHANGED <<status, owner, guardCreated, guards, svars>>
    /\ RefDone(t, "drop")

\* The owner that a tryLock of thread t reads back from lock l.
OwnerRead(l, t) == IF status[l] = LOCKED THEN owner[l] ELSE t

\* The refCounts after the store of :79 by thread t on lock l.  The pointer
\* stored is that of a handle made with handle(); get() is not in the
\* source, and either the handle is dropped within the statement or it
\* goes into the pointer (keeps).
Stored(l, t, keeps) ==
    IF status[l] = UNLOCKED /\ keeps THEN fetch_add(tcbRefCount, t) ELSE tcbRefCount

\* OwnedLock::tryLock by thread t.  The handle of :83 is made with handle()
\* and dropped within its statement.  The handle named owner (:82) is
\* built from the pointer, without a fetch_add; it is dropped where tryLock
\* returns the guard, and handed to the caller in the Err.
RefTryLock(t, keeps) ==
    LET l == TheLock
        o == OwnerRead(l, t)
    IN  /\ status' = [status EXCEPT ![l] = LOCKED]
        /\ owner' = [owner EXCEPT ![l] = o]
        /\ IF TryLockGrants(o, t, guardCreated[l])
           THEN /\ guardCreated' = [guardCreated EXCEPT ![l] = TRUE]
                /\ guards' = [guards EXCEPT ![l] = @ \cup {t}]
                /\ Stored(l, t, keeps)[o] > -MaxUnder
                /\ tcbRefCount' = fetch_sub(Stored(l, t, keeps), o)
                /\ UNCHANGED liveHandles
           ELSE /\ IF o # NULL THEN NewHandle(o) ELSE UNCHANGED liveHandles
                /\ Stored(l, t, keeps)[t] <= MaxHandles
                /\ tcbRefCount' = Stored(l, t, keeps)
                /\ UNCHANGED <<guardCreated, guards>>
        /\ UNCHANGED svars
        /\ RefDone(t, "tryLock")

\* OwnedLock::owner: a handle built from the pointer, without a fetch_add
RefOwner(t) ==
    /\ owner[TheLock] # NULL
    /\ NewHandle(owner[TheLock])
    /\ UNCHANGED <<tcbRefCount, status, owner, guardCreated, guards, svars>>
    /\ RefDone(t, "owner")

\* OwnedLockGuard::drop by the thread that has the guard
RefDropGuard(t) ==
    /\ t \in guards[TheLock]
    /\ owner' = [owner EXCEPT ![TheLock] = NULL]
    /\ status' = [status EXCEPT ![TheLock] = UNLOCKED]
    /\ guards' = [guards EXCEPT ![TheLock] = @ \ {t}]
    /\ UNCHANGED <<guardCreated, rvars, svars>>
    /\ RefDone(t, "dropGuard")

\* scheduleThread(thread) by thread t, on the schedule lock not taken
\* before: getSchedule is a tryLock by t that returns the guard, the guard
\* is dropped on return, and the insert into an empty schedule stores
\* thread.handle() in next.
RefSchedule(t, thread, keeps) ==
    /\ ~guardCreated[schedLock]
    /\ status[schedLock] = UNLOCKED
    /\ guardCreated' = [guardCreated EXCEPT ![schedLock] = TRUE]
    /\ scheduled' = [scheduled EXCEPT ![thread] = TRUE]
    /\ Stored(schedLock, t, keeps)[t] > -MaxUnder
    /\ IF ~scheduled[thread]
       THEN IF schedNext = NULL
            THEN /\ runq' = insert_tail(runq, thread)
                 /\ schedNext' = thread
                 /\ tcbRefCount' = fetch_sub(fetch_add(Stored(schedLock, t, keeps), thread), t)
                 /\ NewHandle(thread)
            ELSE /\ runq' = insert_after(runq, schedNext, thread)
                 /\ tcbRefCount' = fetch_sub(Stored(schedLock, t, keeps), t)
                 /\ UNCHANGED <<schedNext, liveHandles>>
       ELSE /\ tcbRefCount' = fetch_sub(Stored(schedLock, t, keeps), t)
            /\ UNCHANGED <<schedNext, runq, liveHandles>>
    /\ UNCHANGED <<status, owner, guards>>
    /\ RefDone(t, "scheduleThread")

\* descheduleThread(thread) of a thread that is not scheduled: Err(()).
\* (For a scheduled thread the call waits for the schedule lock, which
\* scheduleThread has taken before.)
RefDeschedule(t, thread) ==
    /\ ~scheduled[thread]
    /\ scheduled' = [scheduled EXCEPT ![thread] = FALSE]
    /\ UNCHANGED <<schedNext, runq, status, owner, guardCreated, guards, rvars>>
    /\ RefDone(t, "descheduleThread")

RefNext ==
    \E t \in Threads, T \in Threads :
        \/ RefHandle(t, T)
        \/ RefClone(t, T)
        \/ RefDrop(t, T)
        \/ \E keeps \in BOOLEAN : RefTryLock(t, keeps)
        \/ RefOwner(t)
        \/ RefDropGuard(t)
        \/ \E keeps \in BOOLEAN : RefSchedule(t, T, keeps)
        \/ RefDeschedule(t, T)

SpecRef == AllInit /\ [][RefNext]_vars

\* C28: the refCount of a thread block is the number of handles to it that
\* exist, plus one when the thread is in the run queue; so it is never
\* below zero, and not zero while a handle exists.
RefCountInvariant ==
    \A T \in Threads :
        tcbRefCount[T] = liveHandles[T] + (IF Linked(T) THEN 1 ELSE 0)
====
